---- MODULE Spec2Model ----
(***************************************************************************)
(* Changeset -> configuration merge engine of ozzy-opencore:                *)
(* scripts/apply-changeset.py (translator, NVRAM mirror, post-processing),  *)
(* scripts/patch-plist.py (the patcher, run as a subprocess),               *)
(* lib/data_conversion.py, lib/changeset.py and scripts/read-config.py.     *)
(*                                                                         *)
(* Python values are tagged records:                                        *)
(*   dict  [t |-> "dict",  d |-> function from keys to values]              *)
(*   list  [t |-> "list",  s |-> sequence of values]                        *)
(*   bytes [t |-> "bytes", b |-> sequence of 0..255]                        *)
(*   str   [t |-> "str",   c |-> sequence of characters]                    *)
(*   bool  [t |-> "bool",  v |-> BOOLEAN]     int [t |-> "int", n |-> Int]  *)
(*   date  [t |-> "date",  n |-> Int]  (a YAML timestamp)   None            *)
(***************************************************************************)
EXTENDS Integers, Sequences, FiniteSets, TLC

DictV(f) == [t |-> "dict", d |-> f]
ListV(s) == [t |-> "list", s |-> s]
BytesV(b) == [t |-> "bytes", b |-> b]
StrV(c) == [t |-> "str", c |-> c]
BoolV(v) == [t |-> "bool", v |-> v]
IntV(n) == [t |-> "int", n |-> n]
DateV(n) == [t |-> "date", n |-> n]
NoneV == [t |-> "none"]
EmptyDict == <<>>

IsDict(v) == v.t = "dict"
IsList(v) == v.t = "list"
IsStr(v) == v.t = "str"
IsBytes(v) == v.t = "bytes"
\* isinstance(x, int): bool is a subclass of int in Python
IsInt(v) == v.t \in {"int", "bool"}
IntOf(v) == IF v.t = "int" THEN v.n ELSE IF v.v THEN 1 ELSE 0

\* Python truth value of an object
Truthy(v) ==
    CASE v.t = "dict" -> DOMAIN v.d # {}
      [] v.t = "list" -> Len(v.s) > 0
      [] v.t = "bytes" -> Len(v.b) > 0
      [] v.t = "str" -> Len(v.c) > 0
      [] v.t = "bool" -> v.v
      [] v.t = "int" -> v.n # 0
      [] v.t = "date" -> TRUE
      [] OTHER -> FALSE

\* d[k] = v on a dict
Put(f, k, v) == [x \in (DOMAIN f) \cup {k} |-> IF x = k THEN v ELSE f[x]]
\* d.pop(k, None)
Drop(f, k) == [x \in (DOMAIN f) \ {k} |-> f[x]]
\* d.update(g)
Update(f, g) == [x \in (DOMAIN f) \cup (DOMAIN g) |-> IF x \in DOMAIN g THEN g[x] ELSE f[x]]
\* d.get(k) (None when absent)
Get(f, k) == IF k \in DOMAIN f THEN f[k] ELSE NoneV
\* d.get(k1, d.get(k2))
Get2(f, k1, k2) == IF k1 \in DOMAIN f THEN f[k1] ELSE Get(f, k2)
\* d.get(k, default)
GetDef(f, k, dflt) == IF k \in DOMAIN f THEN f[k] ELSE dflt
\* x.get(k) on a plist/JSON entry that is a dict
EntryGet(x, k) == IF IsDict(x) THEN Get(x.d, k) ELSE NoneV

\* bytes(value) raises unless every item is an int in range(256)
AllBytes(s) == \A i \in 1..Len(s) : IsInt(s[i]) /\ IntOf(s[i]) >= 0 /\ IntOf(s[i]) <= 255
ToBytes(s) == BytesV([i \in 1..Len(s) |-> IntOf(s[i])])
FromBytes(b) == ListV([i \in 1..Len(b) |-> IntV(b[i])])

(***************************************************************************)
(* Hexadecimal text.                                                        *)
(***************************************************************************)
HexVal ==
    [c \in {"0","1","2","3","4","5","6","7","8","9",
            "a","b","c","d","e","f","A","B","C","D","E","F"} |->
       CASE c = "0" -> 0 [] c = "1" -> 1 [] c = "2" -> 2 [] c = "3" -> 3
         [] c = "4" -> 4 [] c = "5" -> 5 [] c = "6" -> 6 [] c = "7" -> 7
         [] c = "8" -> 8 [] c = "9" -> 9
         [] c \in {"a", "A"} -> 10 [] c \in {"b", "B"} -> 11
         [] c \in {"c", "C"} -> 12 [] c \in {"d", "D"} -> 13
         [] c \in {"e", "E"} -> 14 [] c \in {"f", "F"} -> 15]

\* value.replace(' ', '')
RemoveSpaces(cs) == SelectSeq(cs, LAMBDA ch : ch # " ")

\* value.replace('0x', '')
RECURSIVE Remove0x(_)
Remove0x(cs) ==
    IF Len(cs) < 2 THEN cs
    ELSE IF cs[1] = "0" /\ cs[2] = "x" THEN Remove0x(SubSeq(cs, 3, Len(cs)))
    ELSE <<cs[1]>> \o Remove0x(Tail(cs))

\* bytes.fromhex(s): ValueError unless s is pairs of hexadecimal digits
FromHexOK(cs) == Len(cs) % 2 = 0 /\ \A i \in 1..Len(cs) : cs[i] \in DOMAIN HexVal
FromHex(cs) == [i \in 1..(Len(cs) \div 2) |-> 16 * HexVal[cs[2 * i - 1]] + HexVal[cs[2 * i]]]

\* data.hex().upper()
UpperDigit(n) ==
    CASE n = 0 -> "0" [] n = 1 -> "1" [] n = 2 -> "2" [] n = 3 -> "3"
      [] n = 4 -> "4" [] n = 5 -> "5" [] n = 6 -> "6" [] n = 7 -> "7"
      [] n = 8 -> "8" [] n = 9 -> "9" [] n = 10 -> "A" [] n = 11 -> "B"
      [] n = 12 -> "C" [] n = 13 -> "D" [] n = 14 -> "E" [] n = 15 -> "F"
RECURSIVE bytes_to_hex_string(_)
bytes_to_hex_string(b) ==
    IF Len(b) = 0 THEN <<>>
    ELSE <<UpperDigit(Head(b) \div 16), UpperDigit(Head(b) % 16)>> \o bytes_to_hex_string(Tail(b))

hex_string_to_bytes_ok(cs) == FromHexOK(Remove0x(RemoveSpaces(cs)))
hex_string_to_bytes(cs) == FromHex(Remove0x(RemoveSpaces(cs)))

\* normalize_rom_value: str -> hex_string_to_bytes, list -> bytes(list), bytes -> itself
normalize_rom_value(v) ==
    CASE IsStr(v) -> BytesV(hex_string_to_bytes(v.c))
      [] IsList(v) -> ToBytes(v.s)
      [] OTHER -> v

(***************************************************************************)
(* JSON between the translator and the patcher (apply-changeset.py 935-940, *)
(* patch-plist.py 69/91).  CustomJSONEncoder writes bytes as a list of      *)
(* integers; a date is not serializable.                                    *)
(***************************************************************************)
RECURSIVE JsonOK(_)
JsonOK(v) ==
    CASE v.t = "dict" -> \A k \in DOMAIN v.d : JsonOK(v.d[k])
      [] v.t = "list" -> \A i \in 1..Len(v.s) : JsonOK(v.s[i])
      [] v.t = "date" -> FALSE
      [] OTHER -> TRUE

RECURSIVE ToJson(_)
ToJson(v) ==
    CASE v.t = "dict" -> DictV([k \in DOMAIN v.d |-> ToJson(v.d[k])])
      [] v.t = "list" -> ListV([i \in 1..Len(v.s) |-> ToJson(v.s[i])])
      [] v.t = "bytes" -> FromBytes(v.b)
      [] OTHER -> v

\* the payload of an operation: value | entries | entry
OpPayload(op) ==
    CASE op.op = "merge" -> op.entries
      [] op.op = "append" -> op.entry
      [] op.op \in {"set", "remove"} -> op.value
      [] OTHER -> NoneV
OpToJson(op) ==
    CASE op.op = "merge" -> [op EXCEPT !.entries = ToJson(op.entries)]
      [] op.op = "append" -> [op EXCEPT !.entry = ToJson(op.entry)]
      [] op.op \in {"set", "remove"} -> [op EXCEPT !.value = ToJson(op.value)]
      [] OTHER -> op
json_dumps_ok(ops) == \A i \in 1..Len(ops) : JsonOK(OpPayload(ops[i]))
json_dumps(ops) == [i \in 1..Len(ops) |-> OpToJson(ops[i])]

(***************************************************************************)
(* The patcher, scripts/patch-plist.py.                                     *)
(***************************************************************************)
\* key=None of append_unique
NoKey == ""

DataFields == {"Find", "Mask", "Replace", "ReplaceMask", "Cpuid1Data", "Cpuid1Mask"}

\* cur.setdefault(k, {}) while walking a path; the configuration tree has
\* dicts at every inner node of the paths the translator uses
Child(v, k) == IF k \in DOMAIN v.d /\ IsDict(v.d[k]) THEN v.d[k] ELSE DictV(EmptyDict)

RECURSIVE WithPath(_, _, _)
WithPath(obj, path, leaf) ==
    IF Len(path) = 1 THEN DictV(Put(obj.d, path[1], leaf))
    ELSE DictV(Put(obj.d, path[1], WithPath(Child(obj, path[1]), Tail(path), leaf)))

RECURSIVE HasPath(_, _)
HasPath(obj, path) ==
    IF Len(path) = 0 THEN TRUE
    ELSE IsDict(obj) /\ path[1] \in DOMAIN obj.d /\ HasPath(obj.d[path[1]], Tail(path))

RECURSIVE AtPath(_, _)
AtPath(obj, path) ==
    IF Len(path) = 0 THEN obj
    ELSE IF IsDict(obj) /\ path[1] \in DOMAIN obj.d THEN AtPath(obj.d[path[1]], Tail(path))
    ELSE NoneV

Last(path) == path[Len(path)]
Front(path) == SubSeq(path, 1, Len(path) - 1)

\* the value set_key stores: a list of ints in range(256) (the empty list too,
\* all() of nothing being true) becomes bytes; the elif is kept as written
set_key_value(path, value) ==
    IF IsList(value)
    THEN IF AllBytes(value.s) THEN ToBytes(value.s)
         ELSE IF Len(value.s) = 0
              THEN IF Last(path) \in DataFields THEN BytesV(<<>>) ELSE value
              ELSE value
    ELSE value

set_key(obj, path, value) == WithPath(obj, path, set_key_value(path, value))

RECURSIVE convert_data_values_dict(_)
convert_data_values_dict(d) ==
    IF ~IsDict(d) THEN d
    ELSE DictV([key \in DOMAIN d.d |->
           LET value == d.d[key] IN
           IF IsList(value)
           THEN IF key \in DataFields THEN ToBytes(value.s)
                ELSE IF AllBytes(value.s) THEN ToBytes(value.s)
                ELSE value
           ELSE IF IsDict(value) THEN convert_data_values_dict(value)
           ELSE value])

\* the list ensure_array returns (a fresh [] unless a list is there)
ensure_array(obj, path) ==
    LET cur == AtPath(obj, path) IN IF IsList(cur) THEN cur.s ELSE <<>>

\* an append that does not look for an entry with the same key
append_always(obj, path, entry, key) ==
    LET e == IF IsDict(entry) THEN convert_data_values_dict(entry) ELSE entry
    IN  WithPath(obj, path, ListV(Append(ensure_array(obj, path), e)))

append_unique(obj, path, entry, key) ==
    LET e == IF IsDict(entry) THEN convert_data_values_dict(entry) ELSE entry
        arr == ensure_array(obj, path)
        dup == IF key = NoKey
               THEN \E i \in 1..Len(arr) : arr[i] = e
               ELSE \E i \in 1..Len(arr) :
                        IsDict(arr[i]) /\ EntryGet(arr[i], key) = EntryGet(e, key)
    IN  WithPath(obj, path, ListV(IF dup THEN arr ELSE Append(arr, e)))

\* merge_dict raises ValueError("Target not dict")
merge_dict_raises(obj, path) == HasPath(obj, path) /\ ~IsDict(AtPath(obj, path))
merge_dict(obj, path, entries) ==
    LET tgt == IF HasPath(obj, path) THEN AtPath(obj, path) ELSE DictV(EmptyDict)
    IN  WithPath(obj, path, DictV(Update(tgt.d, convert_data_values_dict(entries).d)))

\* "clear" (97-100)
clear_op(obj, path) == WithPath(obj, path, ListV(<<>>))

\* "remove" (101-105): cur.get(k, {}) walks; a missing parent leaves data alone
remove_op(obj, path, key, value) ==
    IF ~HasPath(obj, Front(path)) THEN obj
    ELSE LET cur == AtPath(obj, path)
             arr == IF IsList(cur) THEN cur.s ELSE <<>>
         IN  WithPath(obj, path,
                 ListV(SelectSeq(arr, LAMBDA x : ~(IsDict(x) /\ EntryGet(x, key) = value))))

\* "delete" (77-80) raises KeyError on a missing path
delete_op(obj, path) ==
    IF Len(path) = 1 THEN DictV(Drop(obj.d, path[1]))
    ELSE WithPath(obj, Front(path), DictV(Drop(AtPath(obj, Front(path)).d, Last(path))))

\* op.get("key")
OpKey(op) == IF "key" \in DOMAIN op THEN op.key ELSE NoKey

\* one iteration of the loop of the first __main__ block (71-84): set, append,
\* merge, delete, list; any other operation type is passed over in silence
script_step(data, op) ==
    CASE op.op = "set" -> [ok |-> TRUE, data |-> set_key(data, op.path, op.value)]
      [] op.op = "append" -> [ok |-> TRUE, data |-> append_unique(data, op.path, op.entry, OpKey(op))]
      [] op.op = "merge" ->
            IF merge_dict_raises(data, op.path) THEN [ok |-> FALSE, data |-> data]
            ELSE [ok |-> TRUE, data |-> merge_dict(data, op.path, op.entries)]
      [] op.op = "delete" ->
            IF ~HasPath(data, op.path) THEN [ok |-> FALSE, data |-> data]
            ELSE [ok |-> TRUE, data |-> delete_op(data, op.path)]
      [] op.op = "list" -> [ok |-> HasPath(data, op.path), data |-> data]
      [] OTHER -> [ok |-> TRUE, data |-> data]

\* one iteration of the loop of main() (92-106): set, append, merge, clear,
\* remove; any other operation type raises ValueError
main_step(data, op) ==
    CASE op.op = "set" -> [ok |-> TRUE, data |-> set_key(data, op.path, op.value)]
      [] op.op = "append" -> [ok |-> TRUE, data |-> append_unique(data, op.path, op.entry, OpKey(op))]
      [] op.op = "merge" ->
            IF merge_dict_raises(data, op.path) THEN [ok |-> FALSE, data |-> data]
            ELSE [ok |-> TRUE, data |-> merge_dict(data, op.path, op.entries)]
      [] op.op = "clear" -> [ok |-> TRUE, data |-> clear_op(data, op.path)]
      [] op.op = "remove" -> [ok |-> TRUE, data |-> remove_op(data, op.path, op.key, op.value)]
      [] OTHER -> [ok |-> FALSE, data |-> data]

\* plistlib.dump raises TypeError on a None anywhere in the document; the file,
\* opened for writing before that, is left cut short
RECURSIVE plist_dump_raises(_)
plist_dump_raises(v) ==
    CASE v.t = "dict" -> \E k \in DOMAIN v.d : plist_dump_raises(v.d[k])
      [] v.t = "list" -> \E n \in 1..Len(v.s) : plist_dump_raises(v.s[n])
      [] v.t = "none" -> TRUE
      [] OTHER -> FALSE
TruncatedFile == [t |-> "truncated"]

RECURSIVE script_block(_, _)
script_block(data, ops) ==
    IF Len(ops) = 0 THEN [ok |-> TRUE, data |-> data]
    ELSE LET r == script_step(data, Head(ops))
         IN  IF r.ok THEN script_block(r.data, Tail(ops)) ELSE r

RECURSIVE patch_main(_, _)
patch_main(data, ops) ==
    IF Len(ops) = 0 THEN [ok |-> TRUE, data |-> data]
    ELSE LET r == main_step(data, Head(ops))
         IN  IF r.ok THEN patch_main(r.data, Tail(ops)) ELSE r

(***************************************************************************)
(* scripts/apply-changeset.py: validation, NVRAM mirror, translator.        *)
(* A changeset is the dict yaml.safe_load returns.                          *)
(***************************************************************************)
BootGuid == "7C436110-AB2A-4BBB-A880-FE41995C9F82"
apple_guid == "4D1EDE05-38C7-4A6A-9CC6-4BCCA8B38C14"
nvram_fields == <<"SystemProductName", "SystemSerialNumber", "MLB", "SystemUUID", "ROM">>

SetOp(path, value) == [op |-> "set", path |-> path, value |-> value]
MergeOp(path, entries) == [op |-> "merge", path |-> path, entries |-> entries]
AppendOp(path, entry, key) == [op |-> "append", path |-> path, entry |-> entry, key |-> key]
RemoveOp(path, key, value) == [op |-> "remove", path |-> path, key |-> key, value |-> value]

\* the items of a dict in some fixed order
RECURSIVE SeqOf(_)
SeqOf(S) == IF S = {} THEN <<>> ELSE LET x == CHOOSE y \in S : TRUE IN <<x>> \o SeqOf(S \ {x})

RECURSIVE Flatten(_)
Flatten(ss) == IF Len(ss) = 0 THEN <<>> ELSE Head(ss) \o Flatten(Tail(ss))

\* changeset_data['NVRAM'].get('Add') or changeset_data['NVRAM'].get('add')
nvram_add_of(cs) ==
    LET a == EntryGet(cs.d["NVRAM"], "Add")
    IN  IF Truthy(a) THEN a ELSE EntryGet(cs.d["NVRAM"], "add")

\* the GUIDs of nvram_add whose variables hold boot-args
BootArgGuids(cs) ==
    IF "NVRAM" \notin DOMAIN cs.d THEN {}
    ELSE LET a == nvram_add_of(cs)
         IN  IF ~(IsDict(a) /\ Truthy(a)) THEN {}
             ELSE {g \in DOMAIN a.d : IsDict(a.d[g]) /\ "boot-args" \in DOMAIN a.d[g].d}

\* a validation that lets every changeset through
validate_changeset_structure_accepting(cs) == FALSE

\* validate_changeset_structure of apply-changeset.py: TRUE when it calls sys.exit(1)
validate_changeset_structure_exits(cs) ==
    LET has_boot_args_top_level == "boot_args" \in DOMAIN cs.d \/ "BootArgs" \in DOMAIN cs.d
        has_boot_args_nvram == BootArgGuids(cs) # {}
    IN  has_boot_args_top_level /\ has_boot_args_nvram

\* a mirror that copies ROM as the changeset spells it
mirror_rom_unconverted(rom_value) == rom_value

\* the ROM value the mirror stores: a hex string becomes bytes, a string that
\* is no hex is kept, anything else is copied
mirror_rom(rom_value) ==
    IF IsStr(rom_value)
    THEN IF FromHexOK(RemoveSpaces(rom_value.c)) THEN BytesV(FromHex(RemoveSpaces(rom_value.c)))
         ELSE rom_value
    ELSE rom_value

apply_platform_info_to_nvram(cs) ==
    LET copy_to_nvram == GetDef(cs.d, "PlatformInfoGenericCopyToNvramForAppleId", BoolV(TRUE)) IN
    IF ~Truthy(copy_to_nvram) THEN cs
    ELSE IF ~("PlatformInfo" \in DOMAIN cs.d /\ "Generic" \in DOMAIN cs.d["PlatformInfo"].d) THEN cs
    ELSE LET platform_info == cs.d["PlatformInfo"].d["Generic"]
             cs1 == IF "NVRAM" \notin DOMAIN cs.d THEN DictV(Put(cs.d, "NVRAM", DictV(EmptyDict))) ELSE cs
             cs2 == IF "Add" \notin DOMAIN cs1.d["NVRAM"].d
                    THEN WithPath(cs1, <<"NVRAM", "Add">>, DictV(EmptyDict)) ELSE cs1
             cs3 == IF apple_guid \notin DOMAIN cs2.d["NVRAM"].d["Add"].d
                    THEN WithPath(cs2, <<"NVRAM", "Add", apple_guid>>, DictV(EmptyDict)) ELSE cs2
             old == cs3.d["NVRAM"].d["Add"].d[apple_guid].d
             copied == {nvram_fields[i] : i \in 1..Len(nvram_fields)} \cap DOMAIN platform_info.d
             apple_nvram == [f \in (DOMAIN old) \cup copied |->
                               IF f \in copied
                               THEN IF f = "ROM" THEN mirror_rom(platform_info.d[f])
                                    ELSE platform_info.d[f]
                               ELSE old[f]]
         IN  WithPath(cs3, <<"NVRAM", "Add", apple_guid>>, DictV(apple_nvram))

(***************************************************************************)
(* lib/data_conversion.py convert_data_values                               *)
(***************************************************************************)
RECURSIVE convert_data_values_raises(_)
convert_data_values_raises(obj) ==
    CASE IsDict(obj) ->
            \E key \in DOMAIN obj.d :
                IF key \in {"built-in", "ROM"} /\ IsList(obj.d[key]) THEN ~AllBytes(obj.d[key].s)
                ELSE IF key = "ROM" /\ IsStr(obj.d[key]) THEN FALSE
                ELSE convert_data_values_raises(obj.d[key])
      [] IsList(obj) -> \E i \in 1..Len(obj.s) : convert_data_values_raises(obj.s[i])
      [] OTHER -> FALSE

\* a conversion that hands the value back as it came
convert_data_values_unconverted(obj) == obj

RECURSIVE convert_data_values(_)
convert_data_values(obj) ==
    CASE IsDict(obj) ->
            DictV([key \in DOMAIN obj.d |->
               LET value == obj.d[key] IN
               IF key = "built-in" /\ IsList(value) THEN ToBytes(value.s)
               ELSE IF key = "ROM" /\ IsList(value) THEN ToBytes(value.s)
               ELSE IF IsStr(value) /\ key = "ROM"
                    THEN IF FromHexOK(RemoveSpaces(value.c))
                         THEN BytesV(FromHex(RemoveSpaces(value.c)))
                         ELSE value
               ELSE convert_data_values(value)])
      [] IsList(obj) -> ListV([i \in 1..Len(obj.s) |-> convert_data_values(obj.s[i])])
      [] OTHER -> obj

(***************************************************************************)
(* changeset_to_operations (apply-changeset.py 152-707), section by section *)
(* in the order of the code.  Each XxxOps is the operations one section     *)
(* appends; Xxx_raises is TRUE when the section ends the process (KeyError, *)
(* ValueError or sys.exit(1)).                                              *)
(***************************************************************************)
PatchBinaryFields == <<"Find", "Replace", "Mask", "ReplaceMask">>
PatchBinarySet == {PatchBinaryFields[i] : i \in 1..Len(PatchBinaryFields)}

ensure_bytes_raises(patches) ==
    IsList(patches) /\
    \E i \in 1..Len(patches.s) :
        IsDict(patches.s[i]) /\
        \E field \in PatchBinarySet \cap DOMAIN patches.s[i].d :
            LET value == patches.s[i].d[field] IN
            \/ IsList(value) /\ ~AllBytes(value.s)
            \/ IsStr(value) /\ ~FromHexOK(RemoveSpaces(value.c))

ensure_bytes_for_kernel_patches(patches) ==
    IF ~IsList(patches) THEN patches
    ELSE ListV([i \in 1..Len(patches.s) |->
           LET patch == patches.s[i] IN
           IF ~IsDict(patch) THEN patch
           ELSE DictV([field \in DOMAIN patch.d |->
                  LET value == patch.d[field] IN
                  IF field \in PatchBinarySet
                  THEN IF IsList(value) THEN ToBytes(value.s)
                       ELSE IF IsStr(value) THEN BytesV(FromHex(RemoveSpaces(value.c)))
                       ELSE value
                  ELSE value])])

\* kext.get('exec') and kext['exec'].strip()
HasExec(kext) ==
    LET e == Get(kext.d, "exec")
    IN  Truthy(e) /\ IsStr(e) /\ \E i \in 1..Len(e.c) : e.c[i] # " "

kext_entry(kext) ==
    DictV([k \in {"Arch", "BundlePath", "Comment", "Enabled", "ExecutablePath",
                  "MaxKernel", "MinKernel", "PlistPath"} |->
       CASE k = "Arch" -> StrV(<<"Any">>)
         [] k = "BundlePath" -> kext.d["bundle"]
         [] k = "Comment" -> kext.d["bundle"]
         [] k = "Enabled" -> BoolV(TRUE)
         [] k = "ExecutablePath" ->
               IF HasExec(kext) THEN StrV(<<"Contents/MacOS/">> \o kext.d["exec"].c) ELSE StrV(<<>>)
         [] k = "MaxKernel" -> StrV(<<>>)
         [] k = "MinKernel" -> StrV(<<>>)
         [] k = "PlistPath" -> StrV(<<"Contents/Info.plist">>)])

KextsOf(cs) == Get2(cs.d, "Kexts", "kexts")
Kexts_raises(cs) ==
    Truthy(KextsOf(cs)) /\
    IF ~IsList(KextsOf(cs)) THEN TRUE
    ELSE \E i \in 1..Len(KextsOf(cs).s) :
            ~IsDict(KextsOf(cs).s[i]) \/ "bundle" \notin DOMAIN KextsOf(cs).s[i].d
\* a translator that appends each kext, keyed by BundlePath, instead of
\* replacing the array
KextsOps_appending(cs) ==
    LET kexts == KextsOf(cs) IN
    IF Truthy(kexts)
    THEN [n \in 1..Len(kexts.s) |-> AppendOp(<<"Kernel", "Add">>, kext_entry(kexts.s[n]), "BundlePath")]
    ELSE <<>>
KextsOps(cs) ==
    LET kexts == KextsOf(cs) IN
    IF Truthy(kexts)
    THEN <<SetOp(<<"Kernel", "Add">>, ListV([i \in 1..Len(kexts.s) |-> kext_entry(kexts.s[i])]))>>
    ELSE <<>>

BooterQuirksOps(cs) ==
    IF "BooterQuirks" \in DOMAIN cs.d
    THEN <<MergeOp(<<"Booter", "Quirks">>, cs.d["BooterQuirks"])>> ELSE <<>>

KernelQuirks_raises(cs) ==
    "KernelQuirks" \in DOMAIN cs.d /\ "DummyPowerManagement" \in DOMAIN cs.d["KernelQuirks"].d
KernelQuirksOps(cs) ==
    IF "KernelQuirks" \in DOMAIN cs.d /\ Truthy(cs.d["KernelQuirks"])
    THEN <<MergeOp(<<"Kernel", "Quirks">>, cs.d["KernelQuirks"])>> ELSE <<>>

\* x = changeset_data.get(K, changeset_data.get(k)); if x: merge
MergeIfTruthy(cs, K, k, path) ==
    IF Truthy(Get2(cs.d, K, k)) THEN <<MergeOp(path, Get2(cs.d, K, k))>> ELSE <<>>
\* x = changeset_data.get(K, changeset_data.get(k)); if x: set
SetIfTruthy(cs, K, k, path) ==
    IF Truthy(Get2(cs.d, K, k)) THEN <<SetOp(path, Get2(cs.d, K, k))>> ELSE <<>>
\* x = changeset_data.get(K, changeset_data.get(k)); if x is not None: set
SetIfNotNone(cs, K, k, path) ==
    IF Get2(cs.d, K, k) # NoneV THEN <<SetOp(path, Get2(cs.d, K, k))>> ELSE <<>>
\* x = ...; if x: for setting, value in x.items(): set prefix + [setting]
SetEach(cs, K, k, prefix) ==
    LET x == Get2(cs.d, K, k) IN
    IF Truthy(x) /\ IsDict(x)
    THEN LET keys == SeqOf(DOMAIN x.d)
         IN  [i \in 1..Len(keys) |-> SetOp(Append(prefix, keys[i]), x.d[keys[i]])]
    ELSE <<>>

KernelPatchesOf(cs) == Get2(cs.d, "KernelPatches", "kernel_patches")
KernelPatches_raises(cs) == Truthy(KernelPatchesOf(cs)) /\ ensure_bytes_raises(KernelPatchesOf(cs))
KernelPatchesOps(cs) ==
    IF Truthy(KernelPatchesOf(cs))
    THEN <<SetOp(<<"Kernel", "Patch">>, ensure_bytes_for_kernel_patches(KernelPatchesOf(cs)))>>
    ELSE <<>>

top_level_boot_args(cs) == Get2(cs.d, "BootArgs", "boot_args")
nvram_boot_args(cs) ==
    IF BootArgGuids(cs) = {} THEN NoneV
    ELSE nvram_add_of(cs).d[CHOOSE g \in BootArgGuids(cs) : TRUE].d["boot-args"]
BootArgs_raises(cs) == Truthy(top_level_boot_args(cs)) /\ Truthy(nvram_boot_args(cs))
BootArgsOps(cs) ==
    LET final_boot_args == IF Truthy(top_level_boot_args(cs)) THEN top_level_boot_args(cs)
                           ELSE nvram_boot_args(cs)
    IN  IF Truthy(final_boot_args)
        THEN <<SetOp(<<"NVRAM", "Add", BootGuid, "boot-args">>, final_boot_args)>> ELSE <<>>

\* [int(csr_clean[i:i+2], 16) for i in range(0, len(csr_clean), 2)]
CsrOf(cs) == Get2(cs.d, "CsrActiveConfig", "csr_active_config")
csr_clean(cs) == RemoveSpaces(CsrOf(cs).c)
Csr_raises(cs) ==
    Truthy(CsrOf(cs)) /\ IsStr(CsrOf(cs)) /\
    \E i \in 1..Len(csr_clean(cs)) : csr_clean(cs)[i] \notin DOMAIN HexVal
csr_bytes(cs) ==
    IF IsStr(CsrOf(cs))
    THEN LET c == csr_clean(cs) IN
         ListV([i \in 1..((Len(c) + 1) \div 2) |->
            IF 2 * i <= Len(c) THEN IntV(16 * HexVal[c[2 * i - 1]] + HexVal[c[2 * i]])
            ELSE IntV(HexVal[c[2 * i - 1]])])
    ELSE CsrOf(cs)
CsrOps(cs) ==
    IF Truthy(CsrOf(cs))
    THEN <<SetOp(<<"NVRAM", "Add", BootGuid, "csr-active-config">>, csr_bytes(cs))>> ELSE <<>>

HasGeneric(cs) == "PlatformInfo" \in DOMAIN cs.d /\ "Generic" \in DOMAIN cs.d["PlatformInfo"].d
PlatformInfo_raises(cs) == HasGeneric(cs) /\ convert_data_values_raises(cs.d["PlatformInfo"].d["Generic"])
PlatformInfoOps(cs) ==
    IF HasGeneric(cs)
    THEN <<MergeOp(<<"PlatformInfo", "Generic">>, convert_data_values(cs.d["PlatformInfo"].d["Generic"]))>>
    ELSE <<>>

acpi_entry(acpi_file) ==
    DictV([k \in {"Path", "Enabled", "Comment"} |->
        IF k = "Enabled" THEN BoolV(TRUE) ELSE acpi_file])
AcpiAddOps(cs) ==
    IF "AcpiAdd" \in DOMAIN cs.d
    THEN Flatten([i \in 1..Len(cs.d["AcpiAdd"].s) |->
            <<RemoveOp(<<"ACPI", "Add">>, "Path", cs.d["AcpiAdd"].s[i]),
              AppendOp(<<"ACPI", "Add">>, acpi_entry(cs.d["AcpiAdd"].s[i]), "Path")>>])
    ELSE <<>>

driver_entry(driver) ==
    DictV([k \in {"Path", "Enabled", "LoadEarly"} \cup
                 (IF "arguments" \in DOMAIN driver.d THEN {"Arguments"} ELSE {}) |->
       CASE k = "Path" -> driver.d["path"]
         [] k = "Enabled" -> GetDef(driver.d, "enabled", BoolV(TRUE))
         [] k = "LoadEarly" -> GetDef(driver.d, "LoadEarly", BoolV(FALSE))
         [] k = "Arguments" -> driver.d["arguments"]])
UefiDrivers_raises(cs) ==
    "UefiDrivers" \in DOMAIN cs.d /\
    \E i \in 1..Len(cs.d["UefiDrivers"].s) : "path" \notin DOMAIN cs.d["UefiDrivers"].s[i].d
UefiDriversOps(cs) ==
    IF "UefiDrivers" \in DOMAIN cs.d
    THEN [i \in 1..Len(cs.d["UefiDrivers"].s) |->
            AppendOp(<<"UEFI", "Drivers">>, driver_entry(cs.d["UefiDrivers"].s[i]), "Path")]
    ELSE <<>>

tool_entry(tool) ==
    DictV([k \in {"Name", "Path", "Enabled", "Arguments", "Auxiliary", "Comment",
                  "Flavour", "FullNvramAccess", "RealPath", "TextMode"} |->
       CASE k = "Name" -> tool.d["Name"]
         [] k = "Path" -> tool.d["Path"]
         [] k = "Enabled" -> GetDef(tool.d, "Enabled", BoolV(TRUE))
         [] k = "Arguments" -> GetDef(tool.d, "Arguments", StrV(<<>>))
         [] k = "Auxiliary" -> GetDef(tool.d, "Auxiliary", BoolV(FALSE))
         [] k = "Comment" -> GetDef(tool.d, "Comment", StrV(<<>>))
         [] k = "Flavour" -> GetDef(tool.d, "Flavour", StrV(<<"Auto">>))
         [] k = "FullNvramAccess" -> GetDef(tool.d, "FullNvramAccess", BoolV(FALSE))
         [] k = "RealPath" -> GetDef(tool.d, "RealPath", BoolV(FALSE))
         [] k = "TextMode" -> GetDef(tool.d, "TextMode", BoolV(FALSE))])
ToolsOf(cs) == Get2(cs.d, "MiscTools", "tools")
Tools_raises(cs) ==
    Truthy(ToolsOf(cs)) /\
    \E i \in 1..Len(ToolsOf(cs).s) : ~({"Name", "Path"} \subseteq DOMAIN ToolsOf(cs).s[i].d)
ToolsOps(cs) ==
    IF Truthy(ToolsOf(cs))
    THEN Flatten([i \in 1..Len(ToolsOf(cs).s) |->
            <<RemoveOp(<<"Misc", "Tools">>, "Name", ToolsOf(cs).s[i].d["Name"]),
              AppendOp(<<"Misc", "Tools">>, tool_entry(ToolsOf(cs).s[i]), "Name")>>])
    ELSE <<>>

\* NVRAM section (444-484)
WriteFlashKeys == {"WriteFlash", "writeflash", "Writeflash", "WRITEFLASH"}
NvramOps(cs) ==
    IF "NVRAM" \notin DOMAIN cs.d THEN <<>>
    ELSE LET nvram_data == cs.d["NVRAM"]
             add == IF "Add" \in DOMAIN nvram_data.d
                    THEN LET guids == SeqOf(DOMAIN nvram_data.d["Add"].d) IN
                         Flatten([g \in 1..Len(guids) |->
                            LET variables == nvram_data.d["Add"].d[guids[g]]
                                names == SeqOf((DOMAIN variables.d) \ {"boot-args"})
                            IN  [n \in 1..Len(names) |->
                                   SetOp(<<"NVRAM", "Add", guids[g], names[n]>>, variables.d[names[n]])]])
                    ELSE <<>>
             del == IF "Delete" \in DOMAIN nvram_data.d
                    THEN LET guids == SeqOf({g \in DOMAIN nvram_data.d["Delete"].d :
                                                IsList(nvram_data.d["Delete"].d[g])}) IN
                         [g \in 1..Len(guids) |->
                            SetOp(<<"NVRAM", "Delete", guids[g]>>, nvram_data.d["Delete"].d[guids[g]])]
                    ELSE <<>>
             wfk == WriteFlashKeys \cap DOMAIN nvram_data.d
             wf == IF wfk # {} /\ nvram_data.d[CHOOSE k \in wfk : TRUE] # NoneV
                   THEN <<SetOp(<<"NVRAM", "WriteFlash">>, nvram_data.d[CHOOSE k \in wfk : TRUE])>>
                   ELSE <<>>
         IN  add \o del \o wf

\* boot_key_mapping / security_key_mapping: snake_case -> OpenCore key
boot_key_mapping(k) ==
    CASE k = "timeout" -> "Timeout" [] k = "picker_mode" -> "PickerMode"
      [] k = "poll_apple_hot_keys" -> "PollAppleHotKeys" [] k = "show_picker" -> "ShowPicker"
      [] k = "hide_auxiliary" -> "HideAuxiliary" [] k = "picker_attributes" -> "PickerAttributes"
      [] k = "picker_audio_assist" -> "PickerAudioAssist" [] k = "picker_variant" -> "PickerVariant"
      [] k = "console_attributes" -> "ConsoleAttributes" [] k = "takeoff_delay" -> "TakeoffDelay"
      [] k = "hibernate_mode" -> "HibernateMode"
      [] k = "hibernate_skips_picker" -> "HibernateSkipsPicker"
      [] k = "instance_identifier" -> "InstanceIdentifier"
      [] k = "launcher_option" -> "LauncherOption" [] k = "launcher_path" -> "LauncherPath"
      [] OTHER -> k
security_key_mapping(k) ==
    CASE k = "secureboot_model" -> "SecureBootModel" [] k = "vault" -> "Vault"
      [] k = "scan_policy" -> "ScanPolicy" [] k = "allow_set_default" -> "AllowSetDefault"
      [] k = "expose_sensitive_data" -> "ExposeSensitiveData" [] k = "auth_restart" -> "AuthRestart"
      [] k = "blacklist_apple_update" -> "BlacklistAppleUpdate" [] k = "dmg_loading" -> "DmgLoading"
      [] k = "enable_password" -> "EnablePassword" [] k = "halt_level" -> "HaltLevel"
      [] OTHER -> k
MiscBootOps(cs) ==
    LET x == Get2(cs.d, "MiscBoot", "misc_boot") IN
    IF Truthy(x) /\ IsDict(x)
    THEN LET keys == SeqOf(DOMAIN x.d)
         IN  [i \in 1..Len(keys) |-> SetOp(<<"Misc", "Boot", boot_key_mapping(keys[i])>>, x.d[keys[i]])]
    ELSE <<>>
MiscSecurityOps(cs) ==
    LET x == Get2(cs.d, "MiscSecurity", "misc_security") IN
    IF Truthy(x) /\ IsDict(x)
    THEN LET keys == SeqOf(DOMAIN x.d)
         IN  [i \in 1..Len(keys) |-> SetOp(<<"Misc", "Security", security_key_mapping(keys[i])>>, x.d[keys[i]])]
    ELSE <<>>

\* Misc Tools, TitleCase format (607-637): replaces the whole array
MiscToolsSetOps(cs) ==
    IF "MiscTools" \in DOMAIN cs.d /\ Truthy(cs.d["MiscTools"])
    THEN <<SetOp(<<"Misc", "Tools">>,
                 ListV([i \in 1..Len(cs.d["MiscTools"].s) |-> tool_entry(cs.d["MiscTools"].s[i])]))>>
    ELSE <<>>
MiscEntriesOps(cs) ==
    IF "MiscEntries" \in DOMAIN cs.d /\ Truthy(cs.d["MiscEntries"])
    THEN <<SetOp(<<"Misc", "Entries">>, cs.d["MiscEntries"])>> ELSE <<>>

changeset_to_operations_raises(cs) ==
    \/ Kexts_raises(cs)
    \/ KernelQuirks_raises(cs)
    \/ KernelPatches_raises(cs)
    \/ BootArgs_raises(cs)
    \/ Csr_raises(cs)
    \/ PlatformInfo_raises(cs)
    \/ UefiDrivers_raises(cs)
    \/ Tools_raises(cs)

changeset_to_operations(cs) ==
    KextsOps(cs)
    \o BooterQuirksOps(cs)
    \o KernelQuirksOps(cs)
    \o MergeIfTruthy(cs, "KernelEmulate", "kernel_emulate", <<"Kernel", "Emulate">>)
    \o KernelPatchesOps(cs)
    \o BootArgsOps(cs)
    \o CsrOps(cs)
    \o PlatformInfoOps(cs)
    \o AcpiAddOps(cs)
    \o MergeIfTruthy(cs, "AcpiQuirks", "acpi_quirks", <<"ACPI", "Quirks">>)
    \o UefiDriversOps(cs)
    \o ToolsOps(cs)
    \o SetIfTruthy(cs, "DeviceProperties", "device_properties", <<"DeviceProperties", "Add">>)
    \o SetIfTruthy(cs, "SecureBootModel", "secureboot_model", <<"Misc", "Security", "SecureBootModel">>)
    \o SetIfTruthy(cs, "Vault", "vault", <<"Misc", "Security", "Vault">>)
    \o SetIfTruthy(cs, "ScanPolicy", "scan_policy", <<"Misc", "Security", "ScanPolicy">>)
    \o SetEach(cs, "MiscDebug", "misc_debug", <<"Misc", "Debug">>)
    \o SetEach(cs, "MiscSerial", "misc_serial", <<"Misc", "Serial">>)
    \o NvramOps(cs)
    \o MiscBootOps(cs)
    \o SetIfTruthy(cs, "MiscBlessOverride", "misc_bless_override", <<"Misc", "BlessOverride">>)
    \o MiscSecurityOps(cs)
    \o SetIfNotNone(cs, "AllowSetDefault", "allow_set_default", <<"Misc", "Security", "AllowSetDefault">>)
    \o SetIfNotNone(cs, "ExposeSensitiveData", "expose_sensitive_data", <<"Misc", "Security", "ExposeSensitiveData">>)
    \o SetIfNotNone(cs, "AuthRestart", "auth_restart", <<"Misc", "Security", "AuthRestart">>)
    \o SetIfNotNone(cs, "BlacklistAppleUpdate", "blacklist_apple_update", <<"Misc", "Security", "BlacklistAppleUpdate">>)
    \o SetIfNotNone(cs, "DmgLoading", "dmg_loading", <<"Misc", "Security", "DmgLoading">>)
    \o SetIfNotNone(cs, "EnablePassword", "enable_password", <<"Misc", "Security", "EnablePassword">>)
    \o SetIfNotNone(cs, "HaltLevel", "halt_level", <<"Misc", "Security", "HaltLevel">>)
    \o MiscToolsSetOps(cs)
    \o MiscEntriesOps(cs)
    \o SetEach(cs, "UefiOutput", "uefi_output", <<"UEFI", "Output">>)
    \o SetEach(cs, "UefiApfs", "uefi_apfs", <<"UEFI", "APFS">>)
    \o SetEach(cs, "UefiQuirks", "uefi_quirks", <<"UEFI", "Quirks">>)
    \o SetIfNotNone(cs, "ConnectDrivers", "connect_drivers", <<"UEFI", "ConnectDrivers">>)
    \o SetEach(cs, "ProtocolOverrides", "protocol_overrides", <<"UEFI", "ProtocolOverrides">>)
    \o SetIfTruthy(cs, "ReservedMemory", "reserved_memory", <<"UEFI", "ReservedMemory">>)

(***************************************************************************)
(* post_process_config (apply-changeset.py 709-855).  The file on disk is   *)
(* modelled by the document it holds: plistlib writes a document in one     *)
(* way, and format_short_data_tags / convert_tabs_to_spaces change the      *)
(* layout of the XML text, not the document read back from it.              *)
(***************************************************************************)
\* base64.b64decode(s) on text without '=': characters outside the alphabet
\* are discarded; binascii.Error unless the data characters come in fours
B64Val ==
    [c \in {"0","1","2","3","4","5","6","7","8","9",
            "a","b","c","d","e","f","A","B","C","D","E","F","x"} |->
       CASE c = "A" -> 0 [] c = "B" -> 1 [] c = "C" -> 2 [] c = "D" -> 3
         [] c = "E" -> 4 [] c = "F" -> 5
         [] c = "a" -> 26 [] c = "b" -> 27 [] c = "c" -> 28 [] c = "d" -> 29
         [] c = "e" -> 30 [] c = "f" -> 31 [] c = "x" -> 49
         [] c = "0" -> 52 [] c = "1" -> 53 [] c = "2" -> 54 [] c = "3" -> 55
         [] c = "4" -> 56 [] c = "5" -> 57 [] c = "6" -> 58 [] c = "7" -> 59
         [] c = "8" -> 60 [] c = "9" -> 61]
B64Data(cs) == SelectSeq(cs, LAMBDA ch : ch \in DOMAIN B64Val)
b64decode_ok(cs) == Len(B64Data(cs)) % 4 = 0
RECURSIVE B64Quads(_)
B64Quads(ds) ==
    IF Len(ds) < 4 THEN <<>>
    ELSE LET n == 262144 * B64Val[ds[1]] + 4096 * B64Val[ds[2]] + 64 * B64Val[ds[3]] + B64Val[ds[4]]
         IN  <<n \div 65536, (n \div 256) % 256, n % 256>> \o B64Quads(SubSeq(ds, 5, Len(ds)))
b64decode(cs) == B64Quads(B64Data(cs))

binary_properties ==
    {"layout-id", "device-id", "vendor-id", "subsystem-id", "subsystem-vendor-id", "built-in",
     "class-code", "compatible", "reg", "acpi-path", "acpi-device", "AAPL,slot-name",
     "pci-aspm-default", "AAPL,boot-display"}
nvram_binary_names == {"DefaultBackgroundColor", "csr-active-config", "prev-lang:kbd"}

\* key.startswith('#WARNING'), over the keys the templates use
IsWarningKey(k) == k \in {"#WARNING - 1", "#WARNING - 2", "#WARNING - 3", "#WARNING - 4"}
DropWarnings(f) == [k \in {x \in DOMAIN f : ~IsWarningKey(x)} |-> f[k]]

\* bytes(patch[field]) at line 756 raises on a list that is no list of byte values
post_process_raises(config) ==
    HasPath(config, <<"Kernel", "Patch">>) /\
    LET patches == AtPath(config, <<"Kernel", "Patch">>).s IN
    \E i \in 1..Len(patches) : \E field \in PatchBinarySet \cap DOMAIN patches[i].d :
        IsList(patches[i].d[field]) /\ ~AllBytes(patches[i].d[field].s)

\* post-processing that leaves Kernel.Patch as the patcher wrote it
pp_kernel_patch_skipped(config) == config

\* 750-757
pp_kernel_patch(config) ==
    IF HasPath(config, <<"Kernel", "Patch">>)
    THEN LET patches == AtPath(config, <<"Kernel", "Patch">>).s IN
         WithPath(config, <<"Kernel", "Patch">>,
            ListV([i \in 1..Len(patches) |->
               DictV([field \in DOMAIN patches[i].d |->
                  IF field \in PatchBinarySet /\ IsList(patches[i].d[field])
                  THEN ToBytes(patches[i].d[field].s) ELSE patches[i].d[field]])]))
    ELSE config

\* 759-781; "import base64" is a statement of this block
HasDeviceAdd(config) == HasPath(config, <<"DeviceProperties", "Add">>)
pp_device_properties(config) ==
    IF HasDeviceAdd(config)
    THEN LET add == AtPath(config, <<"DeviceProperties", "Add">>).d IN
         WithPath(config, <<"DeviceProperties", "Add">>,
            DictV([dev \in DOMAIN add |->
               DictV([prop \in DOMAIN add[dev].d |->
                  LET v == add[dev].d[prop] IN
                  IF IsStr(v) /\ prop \in binary_properties /\ b64decode_ok(v.c)
                  THEN BytesV(b64decode(v.c)) ELSE v])]))
    ELSE config

\* 783-795; base64 is a local name of post_process_config, bound only when the
\* DeviceProperties block ran: otherwise the bare except swallows the
\* UnboundLocalError and the string stays
pp_nvram(config, base64_bound) ==
    IF HasPath(config, <<"NVRAM", "Add">>)
    THEN LET add == AtPath(config, <<"NVRAM", "Add">>).d IN
         WithPath(config, <<"NVRAM", "Add">>,
            DictV([guid \in DOMAIN add |->
               DictV([var \in DOMAIN add[guid].d |->
                  LET v == add[guid].d[var] IN
                  IF IsStr(v) /\ var \in nvram_binary_names /\ base64_bound /\ b64decode_ok(v.c)
                  THEN BytesV(b64decode(v.c)) ELSE v])]))
    ELSE config

\* 797-812
pp_warnings(config) ==
    LET c1 == DictV(DropWarnings(config.d))
        c2 == IF "ACPI" \in DOMAIN c1.d
              THEN DictV(Put(c1.d, "ACPI", DictV(DropWarnings(c1.d["ACPI"].d)))) ELSE c1
    IN  IF "DeviceProperties" \in DOMAIN c2.d
        THEN DictV(Put(c2.d, "DeviceProperties", DictV(DropWarnings(c2.d["DeviceProperties"].d))))
        ELSE c2

\* entry.get('Enabled') is True
EnabledIsTrue(entry) == EntryGet(entry, "Enabled") = BoolV(TRUE)

\* 814-824
pp_acpi_add(config) ==
    IF HasPath(config, <<"ACPI", "Add">>)
    THEN WithPath(config, <<"ACPI", "Add">>,
            ListV(SelectSeq(AtPath(config, <<"ACPI", "Add">>).s, EnabledIsTrue)))
    ELSE config

\* 826-837
pp_kernel_add(config) ==
    IF HasPath(config, <<"Kernel", "Add">>)
    THEN LET kept == SelectSeq(AtPath(config, <<"Kernel", "Add">>).s, EnabledIsTrue) IN
         WithPath(config, <<"Kernel", "Add">>,
            ListV([i \in 1..Len(kept) |->
               IF "ExecutablePath" \notin DOMAIN kept[i].d
               THEN DictV(Put(kept[i].d, "ExecutablePath", StrV(<<>>))) ELSE kept[i]]))
    ELSE config

\* current_time.strftime(...) of the clock value
strftime(now) == StrV(<<UpperDigit(now)>>)

post_process_config(config, now) ==
    LET c1 == pp_kernel_patch(config)
        c2 == pp_device_properties(c1)
        c3 == pp_nvram(c2, HasDeviceAdd(c1))
        c4 == pp_warnings(c3)
        c5 == pp_acpi_add(c4)
        c6 == pp_kernel_add(c5)
    IN  DictV(Put(c6.d, "#Generated", strftime(now)))

(***************************************************************************)
(* lib/changeset.py validate_changeset_structure (61-114): the issues it    *)
(* returns, each message a tuple <<text, subject>>.                         *)
(***************************************************************************)
required_sections == <<"kexts", "booter_quirks", "kernel_quirks">>
required_smbios_fields == <<"SystemProductName", "SystemSerialNumber", "MLB", "SystemUUID", "ROM">>

\* a validation that counts a missing recommended section as an error
lib_validate_strict(cs) ==
    [errors |-> {<<"Missing recommended section", required_sections[i]>> :
                    i \in {j \in 1..Len(required_sections) : required_sections[j] \notin DOMAIN cs.d}},
     warnings |-> {},
     info |-> {}]

lib_validate_changeset_structure(cs) ==
    LET missing == {<<"Missing recommended section", required_sections[i]>> :
                       i \in {j \in 1..Len(required_sections) : required_sections[j] \notin DOMAIN cs.d}}
        kexts == Get(cs.d, "kexts")
        kextErrors ==
            IF "kexts" \notin DOMAIN cs.d THEN {}
            ELSE IF ~IsList(kexts) THEN {<<"kexts section must be a list", "kexts">>}
            ELSE {<<"kext must be a dictionary", "kexts">> :
                     i \in {j \in 1..Len(kexts.s) : ~IsDict(kexts.s[j])}}
                 \cup {<<"kext missing 'bundle' field", "kexts">> :
                     i \in {j \in 1..Len(kexts.s) : IsDict(kexts.s[j]) /\ "bundle" \notin DOMAIN kexts.s[j].d}}
        kextWarnings ==
            IF "kexts" \in DOMAIN cs.d /\ IsList(kexts)
            THEN {<<"kext missing 'exec' field", "kexts">> :
                     i \in {j \in 1..Len(kexts.s) : IsDict(kexts.s[j]) /\ "exec" \notin DOMAIN kexts.s[j].d}}
            ELSE {}
        smbios == Get(cs.d, "smbios")
        smbiosErrors ==
            IF "smbios" \in DOMAIN cs.d /\ ~IsDict(smbios)
            THEN {<<"smbios section must be a dictionary", "smbios">>} ELSE {}
        smbiosWarnings ==
            IF "smbios" \in DOMAIN cs.d /\ IsDict(smbios)
            THEN {<<"SMBIOS missing field", required_smbios_fields[i]>> :
                     i \in {j \in 1..Len(required_smbios_fields) :
                               required_smbios_fields[j] \notin DOMAIN smbios.d}}
            ELSE {}
        devErrors ==
            IF "device_properties" \in DOMAIN cs.d /\ ~IsDict(cs.d["device_properties"])
            THEN {<<"device_properties section must be a dictionary", "device_properties">>} ELSE {}
        info == IF "proxmox_vm" \in DOMAIN cs.d
                THEN {<<"Changeset includes Proxmox VM configuration", "proxmox_vm">>} ELSE {}
    IN  [errors |-> kextErrors \cup smbiosErrors \cup devErrors,
         warnings |-> missing \cup kextWarnings \cup smbiosWarnings,
         info |-> info]

(***************************************************************************)
(* scripts/read-config.py read_config_plist (9-285): plist -> changeset.    *)
(***************************************************************************)
booter_quirk_defaults ==
    [k \in {"AllowRelocationBlock", "AvoidRuntimeDefrag", "ClearTaskSwitchBit", "DevirtualiseMmio",
            "DisableSingleUser", "DisableVariableWrite", "DiscardHibernateMap", "EnableSafeModeSlide",
            "EnableWriteUnprotector", "FixupAppleEfiImages", "ForceBooterSignature",
            "ForceExitBootServices", "ProtectMemoryRegions", "ProtectSecureBoot",
            "ProtectUefiServices", "ProvideCustomSlide", "ProvideMaxSlide", "RebuildAppleMemoryMap",
            "ResizeAppleGpuBars", "SetupVirtualMap", "SignalAppleOS", "SyncRuntimePermissions"} |->
       CASE k \in {"FixupAppleEfiImages", "SetupVirtualMap"} -> BoolV(TRUE)
         [] k = "ProvideMaxSlide" -> IntV(0)
         [] k = "ResizeAppleGpuBars" -> IntV(-1)
         [] OTHER -> BoolV(FALSE)]
kernel_quirk_defaults ==
    [k \in {"AppleCpuPmCfgLock", "AppleXcpmCfgLock", "AppleXcpmExtraMsrs", "AppleXcpmForceBoost",
            "CustomPciSerialDevice", "CustomSMBIOSGuid", "DisableIoMapper", "DisableIoMapperMapping",
            "DisableLinkeditJettison", "DisableRtcChecksum", "ExtendBTFeatureFlags",
            "ExternalDiskIcons", "ForceAquantiaEthernet", "ForceSecureBootScheme",
            "IncreasePciBarSize", "LapicKernelPanic", "LegacyCommpage", "PanicNoKextDump",
            "PowerTimeoutKernelPanic", "ProvideCurrentCpuInfo", "SetApfsTrimTimeout",
            "ThirdPartyDrives", "XhciPortLimit"} |->
       IF k = "SetApfsTrimTimeout" THEN IntV(-1) ELSE BoolV(FALSE)]
acpi_quirk_defaults ==
    [k \in {"FadtEnableReset", "NormalizeHeaders", "RebaseRegions", "ResetHwSig",
            "ResetLogoStatus", "SyncTableIds"} |-> BoolV(FALSE)]
boot_defaults ==
    [k \in {"HideAuxiliary", "ShowPicker", "Timeout", "PickerMode", "PickerAttributes",
            "TakeoffDelay", "HibernateMode", "LauncherOption", "LauncherPath"} |->
       CASE k = "HideAuxiliary" -> BoolV(FALSE)
         [] k = "ShowPicker" -> BoolV(TRUE)
         [] k = "Timeout" -> IntV(5)
         [] k = "PickerMode" -> StrV(<<"Builtin">>)
         [] k = "PickerAttributes" -> IntV(1)
         [] k = "TakeoffDelay" -> IntV(0)
         [] k = "HibernateMode" -> StrV(<<"None">>)
         [] k = "LauncherOption" -> StrV(<<"Disabled">>)
         [] k = "LauncherPath" -> StrV(<<"Default">>)]

\* {key: section[key] for key in defaults if key in section and section[key] != default}
NonDefault(section, defaults) ==
    [k \in {x \in (DOMAIN defaults) \cap (DOMAIN section.d) : section.d[x] # defaults[x]} |-> section.d[k]]

\* s.zfill(8)
RECURSIVE zfill8(_)
zfill8(cs) == IF Len(cs) >= 8 THEN cs ELSE zfill8(<<"0">> \o cs)

\* entries of a plist array that have a truthy Enabled
EnabledOf(arr) == SelectSeq(arr, LAMBDA x : Truthy(GetDef(x.d, "Enabled", BoolV(FALSE))))

rc_exec(kext) ==
    LET exec_path == GetDef(kext.d, "ExecutablePath", StrV(<<>>)) IN
    IF Truthy(exec_path) /\ Head(exec_path.c) = "Contents/MacOS/"
    THEN StrV(SelectSeq(exec_path.c, LAMBDA ch : ch # "Contents/MacOS/"))
    ELSE StrV(<<>>)

\* output[name] = value when cond
Section(cond, name, value) == IF cond THEN [k \in {name} |-> value] ELSE EmptyDict

read_config_plist(config) ==
    LET kexts == IF HasPath(config, <<"Kernel", "Add">>)
                 THEN LET en == EnabledOf(AtPath(config, <<"Kernel", "Add">>).s) IN
                      [i \in 1..Len(en) |->
                         DictV([k \in {"bundle", "exec"} |->
                            IF k = "bundle" THEN GetDef(en[i].d, "BundlePath", StrV(<<>>))
                            ELSE rc_exec(en[i])])]
                 ELSE <<>>
        booter == IF HasPath(config, <<"Booter", "Quirks">>)
                  THEN NonDefault(AtPath(config, <<"Booter", "Quirks">>), booter_quirk_defaults)
                  ELSE EmptyDict
        kernel == IF HasPath(config, <<"Kernel", "Quirks">>)
                  THEN NonDefault(AtPath(config, <<"Kernel", "Quirks">>), kernel_quirk_defaults)
                  ELSE EmptyDict
        emulate == HasPath(config, <<"Kernel", "Emulate">>) /\
                   Truthy(GetDef(AtPath(config, <<"Kernel", "Emulate">>).d, "DummyPowerManagement", BoolV(FALSE)))
        acpi == IF HasPath(config, <<"ACPI", "Quirks">>)
                THEN NonDefault(AtPath(config, <<"ACPI", "Quirks">>), acpi_quirk_defaults)
                ELSE EmptyDict
        nv == AtPath(config, <<"NVRAM", "Add", BootGuid>>)
        hasNv == HasPath(config, <<"NVRAM", "Add", BootGuid>>)
        sec == AtPath(config, <<"Misc", "Security">>)
        hasSec == HasPath(config, <<"Misc", "Security">>)
        boot == IF HasPath(config, <<"Misc", "Boot">>)
                THEN NonDefault(AtPath(config, <<"Misc", "Boot">>), boot_defaults) ELSE EmptyDict
        tools == IF HasPath(config, <<"Misc", "Tools">>)
                 THEN LET en == EnabledOf(AtPath(config, <<"Misc", "Tools">>).s) IN
                      [i \in 1..Len(en) |->
                         DictV([k \in {"Name", "Path", "Enabled", "Auxiliary"} |->
                            CASE k = "Name" -> GetDef(en[i].d, "Name", StrV(<<>>))
                              [] k = "Path" -> GetDef(en[i].d, "Path", StrV(<<>>))
                              [] k = "Enabled" -> BoolV(TRUE)
                              [] k = "Auxiliary" -> GetDef(en[i].d, "Auxiliary", BoolV(TRUE))])]
                 ELSE <<>>
        acpi_add == IF HasPath(config, <<"ACPI", "Add">>)
                    THEN LET en == EnabledOf(AtPath(config, <<"ACPI", "Add">>).s) IN
                         [i \in 1..Len(en) |-> GetDef(en[i].d, "Path", StrV(<<>>))]
                    ELSE <<>>
        device_props == IF HasPath(config, <<"DeviceProperties", "Add">>)
                        THEN AtPath(config, <<"DeviceProperties", "Add">>) ELSE DictV(EmptyDict)
        converted_props ==
            DictV([dev \in DOMAIN device_props.d |->
               DictV([key \in DOMAIN device_props.d[dev].d |->
                  LET value == device_props.d[dev].d[key] IN
                  IF IsBytes(value) THEN StrV(<<"0", "x">> \o bytes_to_hex_string(value.b)) ELSE value])])
        drivers == IF HasPath(config, <<"UEFI", "Drivers">>)
                   THEN LET en == EnabledOf(AtPath(config, <<"UEFI", "Drivers">>).s) IN
                        [i \in 1..Len(en) |->
                           DictV([k \in {"path", "enabled", "load_early", "arguments", "comment"} |->
                              CASE k = "path" -> GetDef(en[i].d, "Path", StrV(<<>>))
                                [] k = "enabled" -> BoolV(TRUE)
                                [] k = "load_early" -> GetDef(en[i].d, "LoadEarly", BoolV(FALSE))
                                [] k = "arguments" -> GetDef(en[i].d, "Arguments", StrV(<<>>))
                                [] k = "comment" -> GetDef(en[i].d, "Comment", StrV(<<>>))])]
                   ELSE <<>>
        generic == IF HasPath(config, <<"PlatformInfo", "Generic">>)
                   THEN AtPath(config, <<"PlatformInfo", "Generic">>) ELSE DictV(EmptyDict)
        smbios == [k \in {x \in {"SystemProductName", "SystemSerialNumber", "MLB", "SystemUUID", "ROM"}
                              \cap DOMAIN generic.d : x = "ROM" => IsBytes(generic.d[x])} |->
                     IF k = "ROM" THEN FromBytes(generic.d[k].b) ELSE generic.d[k]]
    IN  DictV(
          Section(Len(kexts) > 0, "kexts", ListV(kexts))
          @@ Section(DOMAIN booter # {}, "booter_quirks", DictV(booter))
          @@ Section(DOMAIN kernel # {}, "kernel_quirks", DictV(kernel))
          @@ Section(emulate, "kernel_emulate", DictV([k \in {"DummyPowerManagement"} |-> BoolV(TRUE)]))
          @@ Section(DOMAIN acpi # {}, "acpi_quirks", DictV(acpi))
          @@ Section(hasNv /\ "boot-args" \in DOMAIN nv.d, "boot_args", nv.d["boot-args"])
          @@ Section(hasNv /\ "csr-active-config" \in DOMAIN nv.d /\ IsBytes(nv.d["csr-active-config"]),
                     "csr_active_config", StrV(zfill8(bytes_to_hex_string(nv.d["csr-active-config"].b))))
          @@ Section(hasSec /\ "SecureBootModel" \in DOMAIN sec.d /\ sec.d["SecureBootModel"] # StrV(<<"Default">>),
                     "secureboot_model", sec.d["SecureBootModel"])
          @@ Section(hasSec /\ "Vault" \in DOMAIN sec.d /\ sec.d["Vault"] # StrV(<<"Secure">>),
                     "vault", sec.d["Vault"])
          @@ Section(hasSec /\ "ScanPolicy" \in DOMAIN sec.d, "scan_policy", sec.d["ScanPolicy"])
          @@ Section(DOMAIN boot # {}, "misc_boot", DictV(boot))
          @@ Section(Len(tools) > 0, "tools", ListV(tools))
          @@ Section(Len(acpi_add) > 0, "acpi_add", ListV(acpi_add))
          @@ Section(DOMAIN converted_props.d # {}, "device_properties", converted_props)
          @@ Section(Len(drivers) > 0, "uefi_drivers", ListV(drivers))
          @@ Section(DOMAIN smbios # {}, "smbios", DictV(smbios)))

(***************************************************************************)
(* Inputs: bounds of the model, the baseline templates                       *)
(* (assets/config.plist.TEMPLATE) and the changesets.                        *)
(***************************************************************************)
MaxKexts == 2
MaxRuns == 2
MaxClock == 2
MaxOps == 2
RomLen == 6

\* a string of one piece
Text(x) == StrV(<<x>>)
Empty == StrV(<<>>)

TemplateKexts(clean) ==
    <<DictV(("Arch" :> Text(IF clean THEN "Any" ELSE "x86_64")) @@ ("BundlePath" :> Text("A.kext"))
          @@ ("Comment" :> Text(IF clean THEN "A.kext" ELSE "sample")) @@ ("Enabled" :> BoolV(TRUE))
          @@ ("ExecutablePath" :> StrV(<<"Contents/MacOS/", "A">>)) @@ ("MaxKernel" :> Empty)
          @@ ("MinKernel" :> Empty) @@ ("PlistPath" :> Text("Contents/Info.plist")))>>
    \o (IF clean THEN <<>>
        ELSE <<DictV(("Arch" :> Text("x86_64")) @@ ("BundlePath" :> Text("Z.kext"))
                  @@ ("Comment" :> Text("sample")) @@ ("Enabled" :> BoolV(FALSE))
                  @@ ("MaxKernel" :> Empty) @@ ("MinKernel" :> Empty)
                  @@ ("PlistPath" :> Text("Contents/Info.plist")))>>)

TemplateAcpi(clean) ==
    (IF clean THEN <<>>
     ELSE <<DictV(("Comment" :> Text("sample")) @@ ("Enabled" :> BoolV(FALSE)) @@ ("Path" :> Text("S.aml")))>>)
    \o <<DictV(("Comment" :> Text("P.aml")) @@ ("Enabled" :> BoolV(TRUE)) @@ ("Path" :> Text("P.aml")))>>

TemplateDrivers(clean) ==
    (IF clean THEN <<>>
     ELSE <<DictV(("Arguments" :> Empty) @@ ("Comment" :> Empty) @@ ("Enabled" :> BoolV(FALSE))
               @@ ("LoadEarly" :> BoolV(FALSE)) @@ ("Path" :> Text("R.efi")))>>)
    \o <<DictV(("Arguments" :> Empty) @@ ("Comment" :> Empty) @@ ("Enabled" :> BoolV(TRUE))
            @@ ("LoadEarly" :> BoolV(FALSE)) @@ ("Path" :> Text("H.efi")))>>

TemplateTools(clean) ==
    IF clean THEN <<>>
    ELSE <<DictV(("Arguments" :> Empty) @@ ("Auxiliary" :> BoolV(TRUE)) @@ ("Comment" :> Text("sample"))
              @@ ("Enabled" :> BoolV(FALSE)) @@ ("Flavour" :> Text("Auto"))
              @@ ("FullNvramAccess" :> BoolV(FALSE)) @@ ("Name" :> Text("T"))
              @@ ("Path" :> Text("T.efi")) @@ ("RealPath" :> BoolV(FALSE))
              @@ ("TextMode" :> BoolV(FALSE)))>>

DevicePath == "PciRoot(0x0)/Pci(0x1b,0x0)"

Template(clean) ==
    DictV(
      (IF clean THEN EmptyDict ELSE ("#WARNING - 1" :> Text("sample configuration")))
      @@ ("ACPI" :> DictV(("Add" :> ListV(TemplateAcpi(clean)))
                       @@ ("Quirks" :> DictV(("FadtEnableReset" :> BoolV(FALSE))
                                          @@ ("ResetLogoStatus" :> BoolV(TRUE))))))
      @@ ("Booter" :> DictV("Quirks" :> DictV(("AvoidRuntimeDefrag" :> BoolV(TRUE))
                                           @@ ("SetupVirtualMap" :> BoolV(TRUE)))))
      @@ ("DeviceProperties" :>
            DictV("Add" :> DictV(DevicePath :> DictV("layout-id" :> BytesV(<<1, 0, 0, 0>>)))))
      @@ ("Kernel" :> DictV(("Add" :> ListV(TemplateKexts(clean)))
                         @@ ("Emulate" :> DictV("DummyPowerManagement" :> BoolV(FALSE)))
                         @@ ("Patch" :> ListV(<<DictV(("Comment" :> Text("p0")) @@ ("Enabled" :> BoolV(TRUE))
                                                   @@ ("Find" :> BytesV(<<1, 2>>))
                                                   @@ ("Replace" :> BytesV(<<3, 4>>)))>>))
                         @@ ("Quirks" :> DictV(("PanicNoKextDump" :> BoolV(TRUE))
                                            @@ ("XhciPortLimit" :> BoolV(FALSE))))))
      @@ ("Misc" :> DictV(("Boot" :> DictV(("ShowPicker" :> BoolV(TRUE)) @@ ("Timeout" :> IntV(5))))
                       @@ ("Security" :> DictV(("ScanPolicy" :> IntV(0))
                                            @@ ("SecureBootModel" :> Text("Default"))
                                            @@ ("Vault" :> Text("Optional"))))
                       @@ ("Tools" :> ListV(TemplateTools(clean)))))
      @@ ("NVRAM" :> DictV("Add" :> DictV(BootGuid :>
                        DictV(("boot-args" :> Text("-v"))
                           @@ ("csr-active-config" :> BytesV(<<0, 0, 0, 0>>))))))
      @@ ("PlatformInfo" :> DictV("Generic" :>
                        DictV(("MLB" :> Text("M0")) @@ ("ROM" :> BytesV(<<17, 34, 51, 68, 85, 102>>))
                           @@ ("SystemProductName" :> Text("iMac19,1"))
                           @@ ("SystemSerialNumber" :> Text("W0"))
                           @@ ("SystemUUID" :> Text("U0")))))
      @@ ("UEFI" :> DictV("Drivers" :> ListV(TemplateDrivers(clean)))))

\* the sample configuration shipped with the boot loader, and one with every
\* sample entry and warning already removed
Templates == {Template(FALSE), Template(TRUE)}

\* an input of apply-changeset: the changeset file (what yaml.safe_load makes of
\* it), with the family it was drawn from and, for the ROM family, the bytes
\* and the spelling the changeset uses for them
In(yaml, family) == [yaml |-> yaml, family |-> family, rom |-> <<>>, form |-> "none"]

\* ---- kexts / Kexts (176-202)
KextA == DictV(("bundle" :> Text("A.kext")) @@ ("exec" :> Text("A")))
KextB == DictV("bundle" :> Text("B.kext"))
KextItems == {KextA, KextB}
KextLists == UNION {[1..n -> KextItems] : n \in 0..MaxKexts}
KextInputs ==
    {In(DictV(key :> ListV(s)), "kexts") : key \in {"Kexts", "kexts"}, s \in KextLists}
    \cup {In(DictV("kexts" :> ListV(<<DictV(("bundle" :> Text("A.kext")) @@ ("exec" :> Text(" ")))>>)), "kexts"),
          In(DictV("kexts" :> ListV(<<DictV("exec" :> Text("A"))>>)), "kexts"),
          In(DictV("kexts" :> Text("A.kext")), "kexts")}

\* ---- PlatformInfo.Generic and the ROM spellings
LowerDigit(n) ==
    CASE n = 10 -> "a" [] n = 11 -> "b" [] n = 12 -> "c" [] n = 13 -> "d"
      [] n = 14 -> "e" [] n = 15 -> "f" [] OTHER -> UpperDigit(n)
RECURSIVE RomHex(_, _)
RomHex(b, form) ==
    IF Len(b) = 0 THEN <<>>
    ELSE (IF form = "hexlower"
          THEN <<LowerDigit(Head(b) \div 16), LowerDigit(Head(b) % 16)>>
          ELSE <<UpperDigit(Head(b) \div 16), UpperDigit(Head(b) % 16)>>)
         \o (IF Len(b) > 1 /\ form = "hexspaced" THEN <<" ">>
             ELSE IF Len(b) > 1 /\ form = "colon" THEN <<":">> ELSE <<>>)
         \o RomHex(Tail(b), form)
RomSpelling(b, form) ==
    CASE form = "list" -> FromBytes(b)
      [] form = "bytes" -> BytesV(b)
      [] OTHER -> StrV(RomHex(b, form))
\* the spellings the conversions accept, and the colon-separated MAC notation
RomForms == {"hex", "hexlower", "hexspaced", "list", "bytes"}
RomValues == {[i \in 1..RomLen |-> (s + 17 * i) % 256] : s \in {0, 153}}

CopyFlag == "PlatformInfoGenericCopyToNvramForAppleId"
FlagPart(flag) ==
    CASE flag = "true" -> (CopyFlag :> BoolV(TRUE))
      [] flag = "false" -> (CopyFlag :> BoolV(FALSE))
      [] OTHER -> EmptyDict
Identity ==
    ("MLB" :> Text("M1")) @@ ("SystemProductName" :> Text("iMacPro1,1"))
    @@ ("SystemSerialNumber" :> Text("W1")) @@ ("SystemUUID" :> Text("U1"))
Platform(generic, flag) ==
    DictV(("PlatformInfo" :> DictV("Generic" :> DictV(generic))) @@ FlagPart(flag))
PlatformInputs ==
    {[yaml |-> Platform(Identity @@ ("ROM" :> RomSpelling(r, f)), flag),
      family |-> "rom", rom |-> r, form |-> f] :
        flag \in {"absent", "true", "false"}, r \in RomValues, f \in RomForms \cup {"colon"}}
    \cup {[yaml |-> Platform("ROM" :> RomSpelling(r, "hex"), "absent"),
           family |-> "rom", rom |-> r, form |-> "hex"] : r \in RomValues}
    \cup {In(Platform(Identity, flag), "platform") : flag \in {"absent", "false"}}
    \cup {In(Platform("ROM" :> ListV(<<IntV(300)>>), "absent"), "platform"),
          In(Platform("ROM" :> StrV(<<"A", "B", "C">>), "absent"), "platform"),
          In(DictV(("PlatformInfo" :> DictV("Generic" :> DictV(Identity)))
                @@ ("NVRAM" :> DictV("Add" :> DictV(apple_guid :>
                       DictV(("MLB" :> Text("old")) @@ ("X" :> Text("keep"))))))), "platform"),
          In(DictV("PlatformInfo" :> DictV("DataHub" :> DictV(EmptyDict))), "platform")}

\* ---- KernelPatches / kernel_patches (238-247)
PatchOf(find, replace) ==
    DictV(("Comment" :> Text("p1")) @@ ("Enabled" :> BoolV(TRUE))
       @@ ("Find" :> find) @@ ("Replace" :> replace))
PatchInputs ==
    {In(DictV(key :> ListV(<<PatchOf(RomSpelling(<<184, 1>>, f), RomSpelling(<<186, 0>>, f))>>)), "patches") :
        key \in {"KernelPatches", "kernel_patches"}, f \in {"hex", "hexspaced", "list", "bytes"}}
    \cup {In(DictV("KernelPatches" :> ListV(<<DictV(("Find" :> FromBytes(<<1>>)) @@ ("Mask" :> ListV(<<>>))
                                                   @@ ("Replace" :> StrV(<<>>)))>>)), "patches"),
          In(DictV("KernelPatches" :> ListV(<<PatchOf(StrV(<<"0", "1", "2">>), FromBytes(<<1>>))>>)), "patches"),
          In(DictV("KernelPatches" :> ListV(<<PatchOf(ListV(<<IntV(256)>>), FromBytes(<<1>>))>>)), "patches")}

(***************************************************************************)
(* AMD Vanilla patches: lib/changeset.py 275-395.                           *)
(***************************************************************************)
\* ' '.join(f'{b:02X}' for b in data)
RECURSIVE hex_join(_)
hex_join(b) ==
    IF Len(b) = 0 THEN <<>>
    ELSE <<UpperDigit(Head(b) \div 16), UpperDigit(Head(b) % 16)>>
         \o (IF Len(b) > 1 THEN <<" ">> ELSE <<>>) \o hex_join(Tail(b))

\* pattern in hex_string
Occurs(pattern, s) ==
    \E k \in 1..(Len(s) - Len(pattern) + 1) : SubSeq(s, k, k + Len(pattern) - 1) = pattern

\* hex_string.replace(pattern, new_pattern): every occurrence, left to right
RECURSIVE str_replace(_, _, _)
str_replace(s, pattern, new_pattern) ==
    IF Len(s) < Len(pattern) THEN s
    ELSE IF SubSeq(s, 1, Len(pattern)) = pattern
    THEN new_pattern \o str_replace(SubSeq(s, Len(pattern) + 1, Len(s)), pattern, new_pattern)
    ELSE <<Head(s)>> \o str_replace(Tail(s), pattern, new_pattern)

\* bytes(int(b, 16) for b in new_hex.split()): the words are pairs of digits
split_to_bytes(new_hex) == FromHex(RemoveSpaces(new_hex))

\* 335-339
patterns_to_replace ==
    <<hex_join(<<186, 0, 0, 0, 0>>), hex_join(<<184, 0, 0, 0, 0>>), hex_join(<<186, 0, 0, 0, 144>>)>>

\* f'BA {core_count:02X} 00 00 00'
new_pattern_of(core_count) ==
    <<"B", "A", " ", UpperDigit(core_count \div 16), UpperDigit(core_count % 16), " ">>
    \o hex_join(<<0, 0, 0>>)

\* 341-347: the first pattern of the list found in the text is replaced, the
\* others are not looked at
replace_core_pattern(hex_string, core_count) ==
    LET matching == {k \in 1..Len(patterns_to_replace) : Occurs(patterns_to_replace[k], hex_string)}
    IN  IF matching = {} THEN hex_string
        ELSE str_replace(hex_string, patterns_to_replace[CHOOSE k \in matching : \A m \in matching : k <= m],
                         new_pattern_of(core_count))

\* the base64 alphabet
B64Alphabet ==
    <<"A", "B", "C", "D", "E", "F", "G", "H", "I", "J", "K", "L", "M", "N", "O", "P",
      "Q", "R", "S", "T", "U", "V", "W", "X", "Y", "Z", "a", "b", "c", "d", "e", "f",
      "g", "h", "i", "j", "k", "l", "m", "n", "o", "p", "q", "r", "s", "t", "u", "v",
      "w", "x", "y", "z", "0", "1", "2", "3", "4", "5", "6", "7", "8", "9", "+", "/">>
B64Chars == {B64Alphabet[k] : k \in 1..Len(B64Alphabet)}
B64Value(c) == (CHOOSE k \in 1..Len(B64Alphabet) : B64Alphabet[k] = c) - 1

\* base64.b64decode(s) on any text (binascii.a2b_base64): characters
\* outside the alphabet are skipped, decoding stops at the padding that
\* completes a quad, and a quad left open is "Incorrect padding"
RECURSIVE a2b_base64(_, _, _, _, _)
a2b_base64(s, quad_pos, leftchar, pads, out) ==
    IF Len(s) = 0 THEN [ok |-> quad_pos = 0, b |-> out]
    ELSE LET c == Head(s) IN
         IF c = "="
         THEN IF quad_pos >= 2 /\ quad_pos + pads + 1 >= 4 THEN [ok |-> TRUE, b |-> out]
              ELSE a2b_base64(Tail(s), quad_pos, leftchar, pads + 1, out)
         ELSE IF c \notin B64Chars THEN a2b_base64(Tail(s), quad_pos, leftchar, pads, out)
         ELSE LET v == B64Value(c) IN
              CASE quad_pos = 0 -> a2b_base64(Tail(s), 1, v, 0, out)
                [] quad_pos = 1 ->
                     a2b_base64(Tail(s), 2, v % 16, 0, Append(out, leftchar * 4 + v \div 16))
                [] quad_pos = 2 ->
                     a2b_base64(Tail(s), 3, v % 4, 0, Append(out, leftchar * 16 + v \div 4))
                [] quad_pos = 3 ->
                     a2b_base64(Tail(s), 0, 0, 0, Append(out, leftchar * 64 + v))

\* base64.b64encode(data).decode('ascii')
RECURSIVE b64encode(_)
b64encode(b) ==
    CASE Len(b) = 0 -> <<>>
      [] Len(b) = 1 ->
           <<B64Alphabet[b[1] \div 4 + 1], B64Alphabet[(b[1] % 4) * 16 + 1], "=", "=">>
      [] Len(b) = 2 ->
           <<B64Alphabet[b[1] \div 4 + 1], B64Alphabet[(b[1] % 4) * 16 + b[2] \div 16 + 1],
             B64Alphabet[(b[2] % 16) * 4 + 1], "=">>
      [] OTHER ->
           <<B64Alphabet[b[1] \div 4 + 1], B64Alphabet[(b[1] % 4) * 16 + b[2] \div 16 + 1],
             B64Alphabet[(b[2] % 16) * 4 + b[3] \div 64 + 1], B64Alphabet[(b[3] % 64) + 1]>>
           \o b64encode(SubSeq(b, 4, Len(b)))

\* str.lower() on the pieces the comments are written with
str_lower(c) ==
    [k \in 1..Len(c) |->
        CASE c[k] = "CPUID_CORES_PER_PACKAGE" -> "cpuid_cores_per_package"
          [] c[k] = "Force " -> "force "
          [] c[k] = "algrey | Force " -> "algrey | force "
          [] c[k] = "algrey | Skip cpu_topology_sort" -> "algrey | skip cpu_topology_sort"
          [] c[k] = "Fix AMD GPU" -> "fix amd gpu"
          [] OTHER -> c[k]]
\* comment.find(piece) >= 0, for a piece no two neighbours spell together
str_find(c, piece) == \E k \in 1..Len(c) : c[k] = piece

\* 319-320: patch.get('Comment', '').lower().find('cpuid_cores_per_package') >= 0
\* (the test for 'force cpuid_cores_per_package' is implied by it)
is_core_count_patch(patch) ==
    LET comment == GetDef(patch.d, "Comment", Empty)
    IN  str_find(str_lower(comment.c), "cpuid_cores_per_package")

\* 325-377: the new value of patch_copy['Replace']
modified_replace(original_replace, core_count) ==
    CASE IsBytes(original_replace) ->
           BytesV(split_to_bytes(replace_core_pattern(hex_join(original_replace.b), core_count)))
      [] IsStr(original_replace) ->
           LET original_bytes == a2b_base64(original_replace.c, 0, 0, 0, <<>>)
           IN  IF ~original_bytes.ok THEN original_replace
               ELSE StrV(b64encode(split_to_bytes(
                        replace_core_pattern(hex_join(original_bytes.b), core_count))))
      [] OTHER -> original_replace

\* a modification that returns the core count patches only
modify_amd_core_count_patches_filtering(patches, core_count) ==
    [patches |-> patches,
     returns |-> ListV(SelectSeq(patches.s, is_core_count_patch))]

\* modify_amd_core_count_patches (302-395): the list it returns, and the list
\* it was given as the caller finds it afterwards (every patch is copied with
\* patch.copy() and only the copy is assigned to)
modify_amd_core_count_patches(patches, core_count) ==
    [patches |-> patches,
     returns |->
        IF core_count <= 0 \/ core_count > 64 THEN patches
        ELSE ListV([k \in 1..Len(patches.s) |->
               LET patch == patches.s[k] IN
               IF is_core_count_patch(patch) /\ "Replace" \in DOMAIN patch.d
               THEN DictV(Put(patch.d, "Replace", modified_replace(patch.d["Replace"], core_count)))
               ELSE patch])]

\* load_amd_vanilla_patches (275-300): the Kernel.Patch array of
\* out/amd-vanilla-patches.plist, None when the file is missing, is no plist
\* or has no Kernel.Patch
load_amd_vanilla_patches(cache_file) ==
    IF ~IsDict(cache_file) THEN NoneV
    ELSE IF "Kernel" \in DOMAIN cache_file.d /\ "Patch" \in DOMAIN cache_file.d["Kernel"].d
    THEN cache_file.d["Kernel"].d["Patch"]
    ELSE NoneV

\* ---- AmdVanillaPatches / amd_vanilla_patches (apply-changeset.py 893-916)
\* comments of the patches of AMD_Vanilla's patches.plist
CoreComment == StrV(<<"algrey | Force ", "cpuid_cores_per_package", " to constant">>)
UpperComment == StrV(<<"Force ", "CPUID_CORES_PER_PACKAGE">>)
OtherComment == Text("algrey | Skip cpu_topology_sort")
AmdPatch(comment, replace) ==
    DictV(("Comment" :> comment) @@ ("Enabled" :> BoolV(TRUE))
       @@ ("Find" :> BytesV(<<184, 1>>)) @@ ("Replace" :> replace))
\* mov edx, 0 as plistlib loads it, and as base64 text
MovEdx == BytesV(<<186, 0, 0, 0, 0>>)
MovEdxBase64 == StrV(<<"u", "g", "A", "A", "A", "A", "A", "=">>)
AmdVanillaPatches ==
    {AmdPatch(CoreComment, MovEdx),
     AmdPatch(CoreComment, BytesV(<<184, 0, 0, 0, 0, 144>>)),
     AmdPatch(CoreComment, BytesV(<<186, 0, 0, 0, 144>>)),
     AmdPatch(CoreComment, BytesV(<<186, 0, 0, 0, 0, 186, 0, 0, 0, 0>>)),
     AmdPatch(CoreComment, BytesV(<<184, 0, 0, 0, 0, 186, 0, 0, 0, 0>>)),
     AmdPatch(CoreComment, BytesV(<<1, 186, 0>>)),
     AmdPatch(CoreComment, MovEdxBase64),
     AmdPatch(CoreComment, StrV(<<"u", "g", " ", "A", "A", "A", "A", "A", "=">>)),
     AmdPatch(CoreComment, StrV(<<"u", "g", "A", "A", "A", "A", "A">>)),
     AmdPatch(CoreComment, IntV(0)),
     DictV(("Comment" :> CoreComment) @@ ("Find" :> MovEdx)),
     AmdPatch(UpperComment, MovEdx),
     AmdPatch(OtherComment, MovEdx),
     DictV(("Find" :> BytesV(<<184, 1>>)) @@ ("Replace" :> MovEdx))}
\* out/amd-vanilla-patches.plist with the given Kernel.Patch
CacheFileOf(patches) == DictV("Kernel" :> DictV("Patch" :> ListV(patches)))
\* the file as fetch-assets.py may have left it: missing, unreadable, without
\* Kernel.Patch, with no patch or with patches
AmdCacheFiles ==
    {NoneV, TruncatedFile, DictV(EmptyDict), CacheFileOf(<<>>),
     CacheFileOf(<<AmdPatch(CoreComment, MovEdx), AmdPatch(OtherComment, BytesV(<<1, 2>>))>>),
     CacheFileOf(<<AmdPatch(OtherComment, BytesV(<<1, 2>>)),
                   AmdPatch(CoreComment, BytesV(<<184, 0, 0, 0, 0, 144>>))>>)}
\* --amd-cores
AmdCores == {NoneV, IntV(0), IntV(8), IntV(65)}
AmdInputs ==
    {In(DictV(f), "amd") :
        f \in {"AmdVanillaPatches" :> BoolV(TRUE),
               ("AmdVanillaPatches" :> BoolV(TRUE))
                  @@ ("KernelPatches" :> ListV(<<PatchOf(BytesV(<<184, 1>>), BytesV(<<186, 0>>))>>)),
               ("amd_vanilla_patches" :> BoolV(TRUE))
                  @@ ("kernel_patches" :> ListV(<<PatchOf(BytesV(<<184, 1>>), BytesV(<<186, 0>>))>>))}}

(***************************************************************************)
(* scripts/plist-to-changeset.py.  The source plists hold the sections      *)
(* Kernel (Quirks, Emulate, Patch) and Booter; the extractors of the other  *)
(* sections return nothing for a plist without them.                        *)
(***************************************************************************)
\* word in comment, over the lower-case pieces the comments are written with
contains(c, word) ==
    \E k \in 1..Len(c) :
        CASE word = "amd" -> c[k] = "fix amd gpu"
          [] word = "algrey" -> c[k] \in {"algrey | force ", "algrey | skip cpu_topology_sort"}
          [] OTHER -> c[k] = word

\* convert_bytes_to_strings (21-47): empty bytes are dropped with their key,
\* bytes of four and more become base64 text, shorter ones stay bytes
RECURSIVE convert_bytes_to_strings(_)
convert_bytes_to_strings(obj) ==
    CASE IsBytes(obj) ->
           IF Len(obj.b) = 0 THEN NoneV
           ELSE IF Len(obj.b) >= 4 THEN StrV(b64encode(obj.b))
           ELSE obj
      [] IsDict(obj) ->
           DictV([k \in {x \in DOMAIN obj.d : convert_bytes_to_strings(obj.d[x]) # NoneV} |->
                    convert_bytes_to_strings(obj.d[k])])
      [] IsList(obj) ->
           LET kept == SelectSeq(obj.s, LAMBDA item : convert_bytes_to_strings(item) # NoneV)
           IN  ListV([k \in 1..Len(kept) |-> convert_bytes_to_strings(kept[k])])
      [] OTHER -> obj

\* 83-99: Booter.Quirks, Kernel.Quirks, Kernel.Emulate, {} when absent
extract_section(config, section, name) ==
    IF section \in DOMAIN config.d /\ name \in DOMAIN config.d[section].d
    THEN config.d[section].d[name] ELSE DictV(EmptyDict)

\* extract_kernel_patches (101-108): the patches with a true Enabled
extract_kernel_patches(config) ==
    IF "Kernel" \in DOMAIN config.d /\ "Patch" \in DOMAIN config.d["Kernel"].d
    THEN ListV(SelectSeq(config.d["Kernel"].d["Patch"].s,
                         LAMBDA patch : Truthy(GetDef(patch.d, "Enabled", BoolV(FALSE)))))
    ELSE ListV(<<>>)

\* detect_amd_patches (356-362)
detect_amd_patches(patches) ==
    \E k \in 1..Len(patches.s) :
        LET comment == str_lower(GetDef(patches.s[k].d, "Comment", Empty).c)
        IN  \/ contains(comment, "amd") \/ contains(comment, "algrey")
            \/ contains(comment, "cpuid_cores_per_package")

\* changeset[key] = value when the value is truthy
PutIf(f, key, value) == IF Truthy(value) THEN Put(f, key, value) ELSE f

\* 404-412: the kernel patches, or the flag in their place
kernel_patches_entry(f, kernel_patches) ==
    IF ~Truthy(kernel_patches) THEN f
    ELSE IF detect_amd_patches(kernel_patches) THEN Put(f, "AmdVanillaPatches", BoolV(FALSE))
    ELSE Put(f, "KernelPatches", kernel_patches)

\* convert_plist_to_changeset (364-452); load_plist returns {} for a file that
\* is no plist
convert_plist_to_changeset(plist) ==
    LET config == IF IsDict(plist) THEN plist ELSE DictV(EmptyDict) IN
    IF ~Truthy(config) THEN DictV(EmptyDict)
    ELSE DictV(kernel_patches_entry(
                 PutIf(PutIf(PutIf(EmptyDict,
                     "BooterQuirks", extract_section(config, "Booter", "Quirks")),
                     "KernelQuirks", extract_section(config, "Kernel", "Quirks")),
                     "KernelEmulate", extract_section(config, "Kernel", "Emulate")),
                 extract_kernel_patches(config)))

\* ---- the plists given to plist-to-changeset.py
CustomPatch == AmdPatch(Text("p1"), MovEdx)
SourcePatches ==
    {CustomPatch,
     DictV(Put(CustomPatch.d, "Enabled", BoolV(FALSE))),
     DictV(Put(Drop(CustomPatch.d, "Enabled"), "Mask", BytesV(<<>>))),
     DictV(Put(AmdPatch(Text("p2"), BytesV(<<186, 0>>)).d, "Mask", BytesV(<<>>))),
     AmdPatch(CoreComment, MovEdx),
     AmdPatch(UpperComment, MovEdx),
     AmdPatch(OtherComment, BytesV(<<1, 2>>)),
     AmdPatch(Text("Fix AMD GPU"), BytesV(<<1, 2>>))}
SourcePatchLists ==
    {<<>>} \cup {<<p>> : p \in SourcePatches} \cup {<<p, q>> : p, q \in SourcePatches}
SourcePlists ==
    {NoneV, TruncatedFile, DictV(EmptyDict),
     DictV("Booter" :> DictV("Quirks" :> DictV("AvoidRuntimeDefrag" :> BoolV(TRUE))))}
    \cup {DictV("Kernel" :> DictV(("Patch" :> ListV(s))
                               @@ ("Quirks" :> DictV("PanicNoKextDump" :> BoolV(TRUE))))) :
            s \in SourcePatchLists}
    \cup {DictV("Kernel" :> DictV("Patch" :> ListV(s))) : s \in SourcePatchLists}

\* ---- CsrActiveConfig / csr_active_config (282-296)
CsrInputs ==
    {In(DictV(key :> v), "csr") :
        key \in {"CsrActiveConfig", "csr_active_config"},
        v \in {StrV(<<"6", "7", "0", "0", "0", "0", "0", "0">>),
               StrV(<<"6", "7", " ", "0", "0", " ", "0", "0", " ", "0", "0">>),
               FromBytes(<<103, 0, 0, 0>>)}}
    \cup {In(DictV("CsrActiveConfig" :> StrV(<<"6", "7", "0">>)), "csr"),
          In(DictV("CsrActiveConfig" :> StrV(<<"0", "x", "6", "7">>)), "csr")}

\* ---- AcpiAdd, UefiDrivers, tools / MiscTools (308-388, 607-637)
ToolOf(name) ==
    DictV(("Name" :> Text(name)) @@ ("Path" :> Text(IF name = "T" THEN "T.efi" ELSE "U.efi")))
ArrayInputs ==
    {In(DictV("AcpiAdd" :> ListV(s)), "arrays") :
        s \in {<<Text("P.aml")>>, <<Text("Q.aml")>>, <<Text("Q.aml"), Text("P.aml")>>,
               <<Text("S.aml")>>}}
    \cup {In(DictV("acpi_add" :> ListV(<<Text("Q.aml")>>)), "arrays")}
    \cup {In(DictV("UefiDrivers" :> ListV(<<d>>)), "arrays") :
            d \in {DictV("path" :> Text("R.efi")),
                   DictV(("path" :> Text("N.efi")) @@ ("arguments" :> Text("-n"))),
                   DictV(("path" :> Text("H.efi")) @@ ("enabled" :> BoolV(FALSE))),
                   DictV("enabled" :> BoolV(TRUE))}}
    \cup {In(DictV("uefi_drivers" :> ListV(<<DictV("path" :> Text("N.efi"))>>)), "arrays")}
    \cup {In(DictV(key :> ListV(s)), "arrays") :
            key \in {"MiscTools", "tools"},
            s \in {<<ToolOf("T")>>, <<ToolOf("U")>>, <<ToolOf("U"), ToolOf("U")>>,
                   <<ToolOf("T"), ToolOf("U"), ToolOf("U")>>}}
    \cup {In(DictV("tools" :> ListV(<<DictV("Name" :> Text("U"))>>)), "arrays")}

\* ---- the sections lib/changeset.py recommends, present or not
SectionValue(name) ==
    CASE name = "kexts" -> ListV(<<KextA>>)
      [] name = "booter_quirks" -> DictV("AvoidRuntimeDefrag" :> BoolV(FALSE))
      [] name = "kernel_quirks" -> DictV("PanicNoKextDump" :> BoolV(FALSE))
SectionInputs ==
    {In(DictV([name \in present |-> SectionValue(name)]), "sections") :
        present \in SUBSET {required_sections[i] : i \in 1..Len(required_sections)}}

\* ---- the other sections of the translator
MiscInputs ==
    {In(DictV(f), "misc") :
        f \in {"BootArgs" :> Text("-v debug=0x100"),
               "boot_args" :> Text("-v"),
               "NVRAM" :> DictV("Add" :> DictV(BootGuid :> DictV("boot-args" :> Text("-x")))),
               ("BootArgs" :> Text("-v"))
                  @@ ("NVRAM" :> DictV("Add" :> DictV(BootGuid :> DictV("boot-args" :> Text("-x"))))),
               ("boot_args" :> Empty)
                  @@ ("NVRAM" :> DictV("Add" :> DictV(BootGuid :> DictV("boot-args" :> Text("-x"))))),
               ("BootArgs" :> Text("-v")) @@ ("AcpiAdd" :> ListV(<<Text("P.aml")>>))
                  @@ ("NVRAM" :> DictV("add" :> DictV(apple_guid :> DictV("boot-args" :> Text("-x"))))),
               "NVRAM" :> DictV("Add" :> DictV((BootGuid :> DictV("boot-args" :> Text("-x")))
                                            @@ (apple_guid :> DictV("boot-args" :> Text("-s"))))),
               "BooterQuirks" :> DictV("AvoidRuntimeDefrag" :> BoolV(FALSE)),
               "KernelQuirks" :> DictV("PanicNoKextDump" :> BoolV(FALSE)),
               "KernelQuirks" :> DictV("DummyPowerManagement" :> BoolV(TRUE)),
               "KernelEmulate" :> DictV(("DummyPowerManagement" :> BoolV(TRUE))
                                     @@ ("Cpuid1Data" :> FromBytes(<<1, 2>>))),
               "AcpiQuirks" :> DictV("ResetLogoStatus" :> BoolV(FALSE)),
               "DeviceProperties" :> DictV(DevicePath :>
                    DictV(("layout-id" :> StrV(<<"A", "B", "C", "D">>)) @@ ("model" :> Text("hda")))),
               "NVRAM" :> DictV(("Add" :> DictV(BootGuid :>
                                    DictV("csr-active-config" :> StrV(<<"6", "7", "0", "0", "0", "0", "0", "0">>))))
                             @@ ("Delete" :> DictV(BootGuid :> ListV(<<Text("boot-args")>>)))
                             @@ ("WriteFlash" :> BoolV(TRUE))),
               "NVRAM" :> DictV("Add" :> DictV(BootGuid :> DictV("stamp" :> DateV(1)))),
               "NVRAM" :> DictV("Add" :> DictV(BootGuid :> DictV("prev-lang:kbd" :> NoneV))),
               ("SecureBootModel" :> Text("Disabled")) @@ ("Vault" :> Text("Optional"))
                  @@ ("ScanPolicy" :> IntV(0)) @@ ("AllowSetDefault" :> BoolV(FALSE)),
               ("MiscBoot" :> DictV(("timeout" :> IntV(0)) @@ ("PickerMode" :> Text("External"))))
                  @@ ("misc_security" :> DictV("vault" :> Text("Secure")))
                  @@ ("MiscDebug" :> DictV("Target" :> IntV(3)))
                  @@ ("MiscEntries" :> ListV(<<DictV("Name" :> Text("E"))>>))
                  @@ ("MiscBlessOverride" :> ListV(<<Text("bless")>>)),
               ("UefiQuirks" :> DictV("ReleaseUsbOwnership" :> BoolV(TRUE)))
                  @@ ("UefiOutput" :> DictV("TextRenderer" :> Text("BuiltinGraphics")))
                  @@ ("UefiApfs" :> DictV("MinDate" :> IntV(-1)))
                  @@ ("ConnectDrivers" :> BoolV(TRUE))
                  @@ ("ProtocolOverrides" :> DictV("FirmwareVolume" :> BoolV(TRUE)))
                  @@ ("ReservedMemory" :> ListV(<<DictV("Address" :> IntV(1))>>))
                  @@ ("MiscSerial" :> DictV("Init" :> BoolV(FALSE)))}}

\* a changeset file that is no YAML
InvalidYaml == [t |-> "invalid"]

ChangesetInputs ==
    KextInputs \cup PlatformInputs \cup PatchInputs \cup CsrInputs \cup ArrayInputs
    \cup SectionInputs \cup MiscInputs \cup AmdInputs \cup {In(InvalidYaml, "invalid")}

\* the files main() looks for: the changeset, the template, the patcher and
\* the validation script
AllFiles == {"changeset", "template", "patcher", "validator"}
FileSets == {AllFiles} \cup {AllFiles \ {f} : f \in AllFiles}

\* ---- the patcher run by hand: patch-plist.py <plist> <ops_json>
DriversPath == <<"UEFI", "Drivers">>
DriverH == DictV(("Enabled" :> BoolV(TRUE)) @@ ("Path" :> Text("H.efi")))
DriverN == DictV(("Enabled" :> BoolV(FALSE)) @@ ("Path" :> Text("N.efi")))
PatchDocs ==
    {DictV(EmptyDict),
     DictV(("Misc" :> DictV("Boot" :> DictV("Timeout" :> IntV(5))))
        @@ ("UEFI" :> DictV("Drivers" :> ListV(<<DriverH>>))))}
PatchOps ==
    {AppendOp(DriversPath, DriverH, "Path"),
     AppendOp(DriversPath, DriverN, "Path"),
     AppendOp(DriversPath, DictV("Path" :> Text("N.efi")), "Path"),
     [op |-> "append", path |-> DriversPath, entry |-> DictV("Path" :> Text("N.efi"))],
     SetOp(DriversPath, ListV(<<DriverN, DriverN>>)),
     SetOp(<<"Kernel", "Emulate", "Cpuid1Data">>, ListV(<<>>)),
     SetOp(<<"Misc", "BlessOverride">>, ListV(<<>>)),
     SetOp(<<"Misc", "Boot">>, FromBytes(<<1, 2>>)),
     RemoveOp(DriversPath, "Path", Text("H.efi")),
     [op |-> "clear", path |-> DriversPath],
     MergeOp(<<"Misc", "Boot">>, DictV(("Timeout" :> IntV(0)) @@ ("Find" :> FromBytes(<<1>>)))),
     [op |-> "delete", path |-> <<"Misc", "Boot">>],
     [op |-> "list", path |-> <<"Misc">>],
     SetOp(<<"Misc", "Boot", "LauncherPath">>, NoneV),
     [op |-> "bogus", path |-> <<"Misc">>]}
\* what the translator emits for an array section: remove, then append
ReplaceThenAdd ==
    <<RemoveOp(DriversPath, "Path", Text("H.efi")),
      AppendOp(DriversPath, DriverH, "Path"),
      AppendOp(DriversPath, DriverN, "Path")>>
PatchOpLists == UNION {[1..n -> PatchOps] : n \in 0..MaxOps} \cup {ReplaceThenAdd}

(***************************************************************************)
(* State.                                                                    *)
(***************************************************************************)
VARIABLES
    template,    \* assets/config.plist.TEMPLATE
    yaml,        \* the changeset file
    ghost,       \* family, ROM bytes and spelling the changeset was built from
    files,       \* the files that exist
    patches_cache,  \* out/amd-vanilla-patches.plist
    procs,       \* apply-changeset.py invocations running at the same time
    args,        \* parsed command line: [dry_run, amd_cores]; --amd-cores is the
                 \* same each time the command is run again
    pc,          \* position in main()
    changeset_data,
    operations,  \* the operation list, then operations_json
    config,      \* EFI/OC/config.plist, or the plist patch-plist.py is given
    acpi_dir,    \* EFI/OC/ACPI
    exitCode,    \* "running", "0", "1"
    failure,     \* what ended the run with code 1
    trace,       \* the stages of main() this invocation went through
    clock,       \* datetime.now()
    run,         \* number of the invocation
    previous,    \* config.plist as the previous successful invocation left it;
                 \* for patch-plist.py, the plist as it was before the run
    issues,      \* result of lib.changeset.validate_changeset_structure
    data,        \* the plist in the memory of patch-plist.py
    i,           \* index of the next operation of patch-plist.py
    failed,      \* the steps of this invocation that failed
    backup,      \* the changeset's .yaml.backup file
    cache        \* out/build: <changeset>.assets.sha256, the bundles under EFI/OC/Kexts,
                 \* whether out/opencore holds ocvalidate

inputVars == <<template, yaml, ghost, files, patches_cache>>
\* no concurrent invocations
NoProcs == <<>>
patcherVars == <<data, i>>
workflowVars == <<failed, backup, cache>>
vars == <<template, yaml, ghost, files, patches_cache, procs, args, pc, changeset_data, operations, config, acpi_dir,
          exitCode, failure, trace, clock, run, previous, issues, patcherVars,
          workflowVars>>

NoIssues == [errors |-> {}, warnings |-> {}, info |-> {<<"not validated", "">>}]
\* a fresh checkout: no hash file, no kexts under out/build/efi/EFI/OC/Kexts
NoCache == [hash |-> NoneV, kexts |-> {}, tools |-> FALSE]

InitApply ==
    /\ template \in Templates
    /\ \E in \in ChangesetInputs :
          /\ yaml = in.yaml
          /\ ghost = [family |-> in.family, rom |-> in.rom, form |-> in.form]
          /\ files \in (IF in.family = "sections" THEN FileSets ELSE {AllFiles})
          /\ patches_cache \in (IF in.family = "amd" THEN AmdCacheFiles ELSE {NoneV})
    /\ procs = NoProcs
    /\ \E cores \in (IF ghost.family = "amd" THEN AmdCores ELSE {NoneV}) :
          args = [dry_run |-> FALSE, amd_cores |-> cores]
    /\ pc = "idle"
    /\ changeset_data = NoneV
    /\ operations = <<>>
    /\ config = NoneV
    /\ acpi_dir = {}
    /\ exitCode = "running"
    /\ failure = "none"
    /\ trace = {}
    /\ clock = 0
    /\ run = 1
    /\ previous = NoneV
    /\ issues = NoIssues
    /\ data = NoneV
    /\ i = 0
    /\ failed = {}
    /\ backup = NoneV
    /\ cache = NoCache

InitPatcher ==
    /\ template = NoneV
    /\ yaml = NoneV
    /\ ghost = [family |-> "patcher", rom |-> <<>>, form |-> "none"]
    /\ files = AllFiles
    /\ patches_cache = NoneV
    /\ procs = NoProcs
    /\ args = [dry_run |-> FALSE]
    /\ pc = "p_idle"
    /\ changeset_data = NoneV
    /\ operations \in PatchOpLists
    /\ config \in PatchDocs
    /\ acpi_dir = {}
    /\ exitCode = "running"
    /\ failure = "none"
    /\ trace = {}
    /\ clock = 0
    /\ run = 1
    /\ previous = config
    /\ issues = NoIssues
    /\ data = NoneV
    /\ i = 0
    /\ failed = {}
    /\ backup = NoneV
    /\ cache = NoCache

\* the other scripts start with nothing loaded
InitScript(family, start, argv, doc) ==
    /\ template = NoneV
    /\ yaml = doc
    /\ ghost = [family |-> family, rom |-> <<>>, form |-> "none"]
    /\ (family \notin {"full-deploy", "build-artifact"} => files = AllFiles)
    /\ patches_cache = NoneV
    /\ procs = NoProcs
    /\ args = argv
    /\ pc = start
    /\ changeset_data = NoneV
    /\ operations = <<>>
    /\ config = NoneV
    /\ acpi_dir = {}
    /\ exitCode = "running"
    /\ failure = "none"
    /\ trace = {}
    /\ clock = 0
    /\ run = 1
    /\ previous = NoneV
    /\ issues = NoIssues
    /\ data = NoneV
    /\ i = 0
    /\ failed = {}
    /\ backup = NoneV
    /\ (family \notin {"full-deploy", "build-artifact"} => cache = NoCache)

NoArgs == [dry_run |-> FALSE]

\* scripts/fetch-assets.py, workflows/full-usb.py <changeset> [--eject],
\* scripts/deploy-usb.py
InitFetchAssets == InitScript("fetch-assets", "f_commands", NoArgs, NoneV)
InitFullUsb ==
    \E eject \in BOOLEAN :
        InitScript("full-usb", "u_changeset", [dry_run |-> FALSE, eject |-> eject], NoneV)
InitDeployUsb == InitScript("deploy-usb", "d_source", NoArgs, NoneV)

\* a changeset file to be updated in place, with or without backup
SavedChangesets ==
    {DictV("kexts" :> ListV(<<KextA>>)),
     DictV(("kexts" :> ListV(<<KextA>>)) @@ ("smbios" :> DictV("SystemSerialNumber" :> Text("OLD"))))}
InitSave ==
    \E doc \in SavedChangesets, flag \in BOOLEAN :
        InitScript("save", "s_idle", [dry_run |-> FALSE, backup |-> flag], doc)

\* workflows/full-deploy.py <changeset> [--force] [--build-only] [--iso-only]
\* [--iso] [--local-efi]
DeployArgs ==
    [dry_run : {FALSE}, force : BOOLEAN, build_only : BOOLEAN, iso_only : BOOLEAN,
     iso : BOOLEAN, local_efi : BOOLEAN, no_validate : {FALSE}]
\* the kexts config/sources.json lists
SourceKexts == {Text("A.kext"), Text("B.kext")}
BuildChangesets ==
    {DictV("Kexts" :> ListV(<<KextA>>)),
     DictV("Kexts" :> ListV(<<KextA, KextB, KextA>>)),
     DictV("Kexts" :> ListV(<<>>)),
     DictV(("kexts" :> ListV(<<KextB>>)) @@ ("AcpiAdd" :> ListV(<<Text("P.aml")>>)))}
\* out/ after `fetch-assets.py` was run by hand: OpenCore's tools and the kexts
FetchedByHand == [hash |-> NoneV, kexts |-> SourceKexts, tools |-> TRUE]
\* scripts/validate-config.py is in the checkout, or is not
BuildFiles == {AllFiles, AllFiles \ {"validator"}}
InitFullDeploy ==
    /\ \E argv \in DeployArgs, doc \in BuildChangesets :
          InitScript("full-deploy", "w_idle", argv, doc)
    /\ cache \in {NoCache, FetchedByHand}
    /\ files \in BuildFiles

\* build_iso_artifact / build_img_artifact (lib/efi_builder.py 419-) called
\* with a changeset, force_rebuild and no_validate; apply_changeset is left
\* at its default, and the call returns with the artifact built
ArtifactArgs ==
    [dry_run : {FALSE}, force : BOOLEAN, build_only : {TRUE}, iso_only : {FALSE},
     iso : BOOLEAN, local_efi : {FALSE}, no_validate : BOOLEAN]
InitBuildArtifact ==
    /\ \E argv \in ArtifactArgs, doc \in BuildChangesets :
          InitScript("build-artifact", "w_build", argv, doc)
    /\ cache \in {NoCache, FetchedByHand}
    /\ files \in BuildFiles

\* scripts/amd-vanilla.py test [--cores N]: the patch file holds one or two of
\* the patches, or is missing
AmdTestFiles ==
    {NoneV} \cup {CacheFileOf(<<p>>) : p \in AmdVanillaPatches}
    \cup {CacheFileOf(<<p, q>>) : p, q \in AmdVanillaPatches}
AmdTestCores == {16, 1, 10, 64, 65, 0, -1}
InitAmdTest ==
    /\ template = NoneV
    /\ yaml = NoneV
    /\ ghost = [family |-> "amd-test", rom |-> <<>>, form |-> "none"]
    /\ files = AllFiles
    /\ patches_cache \in AmdTestFiles
    /\ procs = NoProcs
    /\ \E cores \in AmdTestCores : args = [dry_run |-> FALSE, cores |-> cores]
    /\ pc = "t_idle"
    /\ changeset_data = NoneV
    /\ operations = <<>>
    /\ config = NoneV
    /\ acpi_dir = {}
    /\ exitCode = "running"
    /\ failure = "none"
    /\ trace = {}
    /\ clock = 0
    /\ run = 1
    /\ previous = NoneV
    /\ issues = NoIssues
    /\ data = NoneV
    /\ i = 0
    /\ failed = {}
    /\ backup = NoneV
    /\ cache = NoCache

\* scripts/plist-to-changeset.py <plist> <name> [--force]: the changeset of
\* that name exists already or not
InitConvert ==
    /\ template = NoneV
    /\ yaml \in {NoneV, DictV("kexts" :> ListV(<<KextA>>))}
    /\ ghost = [family |-> "plist-to-changeset", rom |-> <<>>, form |-> "none"]
    /\ files = AllFiles
    /\ patches_cache = NoneV
    /\ procs = NoProcs
    /\ \E force \in BOOLEAN : args = [dry_run |-> FALSE, force |-> force]
    /\ pc = "c_idle"
    /\ changeset_data = NoneV
    /\ operations = <<>>
    /\ config \in SourcePlists
    /\ acpi_dir = {}
    /\ exitCode = "running"
    /\ failure = "none"
    /\ trace = {}
    /\ clock = 0
    /\ run = 1
    /\ previous = NoneV
    /\ issues = NoIssues
    /\ data = NoneV
    /\ i = 0
    /\ failed = {}
    /\ backup = NoneV
    /\ cache = NoCache

\* the changesets of two invocations started on the same project directory
ConcurrentChangesets ==
    {<<DictV("BootArgs" :> Text("-v debug=0x100")),
       DictV("KernelQuirks" :> DictV("PanicNoKextDump" :> BoolV(FALSE)))>>,
     <<DictV("BooterQuirks" :> DictV("AvoidRuntimeDefrag" :> BoolV(FALSE))),
       DictV(("BootArgs" :> Text("-v")) @@ ("AcpiAdd" :> ListV(<<Text("P.aml")>>)))>>,
     <<DictV("KernelQuirks" :> DictV("DummyPowerManagement" :> BoolV(TRUE))),
       DictV("KernelQuirks" :> DictV("PanicNoKextDump" :> BoolV(FALSE)))>>}

InitConcurrent ==
    /\ template \in Templates
    /\ yaml = NoneV
    /\ ghost = [family |-> "concurrent", rom |-> <<>>, form |-> "none"]
    /\ files = AllFiles
    /\ patches_cache = NoneV
    /\ \E cs \in ConcurrentChangesets :
          procs = [p \in 1..2 |-> [pc |-> "start", changeset |-> cs[p], operations |-> <<>>,
                                    data |-> NoneV, exitCode |-> "running"]]
    /\ args = [dry_run |-> FALSE, amd_cores |-> NoneV]
    /\ pc = "concurrent"
    /\ changeset_data = NoneV
    /\ operations = <<>>
    /\ config \in {NoneV, template}
    /\ acpi_dir = {}
    /\ exitCode = "running"
    /\ failure = "none"
    /\ trace = {}
    /\ clock = 0
    /\ run = 1
    /\ previous = NoneV
    /\ issues = NoIssues
    /\ data = NoneV
    /\ i = 0
    /\ failed = {}
    /\ backup = NoneV
    /\ cache = NoCache

Init ==
    \/ InitConcurrent
    \/ InitAmdTest
    \/ InitBuildArtifact
    \/ InitConvert
    \/ InitApply \/ InitPatcher \/ InitFetchAssets \/ InitFullUsb \/ InitDeployUsb
    \/ InitSave \/ InitFullDeploy

(***************************************************************************)
(* main() of scripts/apply-changeset.py (857-1020), one action per stage.    *)
(***************************************************************************)
\* return 1, sys.exit(1) or an uncaught exception: the process ends with code 1
Fail(why) == pc' = "done" /\ exitCode' = "1" /\ failure' = why

\* lib.common.validate_changeset_exists: the path of the changeset, or exit 1
validate_changeset_exists(fs) == "changeset" \in fs
\* validate_file_exists raises FileNotFoundError
validate_file_exists(fs, f) == f \in fs

\* 862-866
ParseArgs ==
    /\ pc = "idle"
    /\ \E dry \in BOOLEAN : args' = [args EXCEPT !.dry_run = dry]
    /\ pc' = "files"
    /\ UNCHANGED <<inputVars, procs, workflowVars, changeset_data, operations, config, acpi_dir, exitCode, failure,
                   trace, clock, run, previous, issues, patcherVars>>

\* 868-871
ValidateFiles ==
    /\ pc = "files"
    /\ IF ~validate_changeset_exists(files) THEN Fail("changeset missing")
       ELSE IF ~validate_file_exists(files, "template") THEN Fail("template missing")
       ELSE IF ~validate_file_exists(files, "patcher") THEN Fail("patcher missing")
       ELSE pc' = "load" /\ UNCHANGED <<exitCode, failure>>
    /\ UNCHANGED <<inputVars, procs, workflowVars, args, changeset_data, operations, config, acpi_dir,
                   trace, clock, run, previous, issues, patcherVars>>

\* 873-880
LoadChangeset ==
    /\ pc = "load"
    /\ IF yaml = InvalidYaml
       THEN Fail("yaml") /\ UNCHANGED <<changeset_data, trace>>
       ELSE /\ changeset_data' = yaml
            /\ trace' = trace \cup {"loaded"}
            /\ pc' = "structure"
            /\ UNCHANGED <<exitCode, failure>>
    /\ UNCHANGED <<inputVars, procs, workflowVars, args, operations, config, acpi_dir, clock, run, previous, issues,
                   patcherVars>>

\* 883
ValidateStructure ==
    /\ pc = "structure"
    /\ IF validate_changeset_structure_exits(changeset_data)
       THEN Fail("structure")
       ELSE pc' = "mirror" /\ UNCHANGED <<exitCode, failure>>
    /\ UNCHANGED <<inputVars, procs, workflowVars, args, changeset_data, operations, config, acpi_dir,
                   trace, clock, run, previous, issues, patcherVars>>

\* 886
MirrorNvram ==
    /\ pc = "mirror"
    /\ changeset_data' = apply_platform_info_to_nvram(changeset_data)
    /\ pc' = "acpi"
    /\ UNCHANGED <<inputVars, procs, workflowVars, args, operations, config, acpi_dir, exitCode, failure,
                   trace, clock, run, previous, issues, patcherVars>>

\* the tables found under Docs/AcpiSamples/Binaries or assets
AcpiSources == {Text("P.aml"), Text("S.aml")}
\* copy_acpi_files (30-70): the files EFI/OC/ACPI holds afterwards
copy_acpi_files(dir, acpi_files) ==
    dir \cup {f \in AcpiSources : \E n \in 1..Len(acpi_files.s) : acpi_files.s[n] = f}

\* 888-891
CopyAcpi ==
    /\ pc = "acpi"
    /\ LET acpi_add == GetDef(changeset_data.d, "AcpiAdd", Get(changeset_data.d, "acpi_add"))
       IN  acpi_dir' = IF Truthy(acpi_add) THEN copy_acpi_files(acpi_dir, acpi_add) ELSE acpi_dir
    /\ pc' = "amd"
    /\ UNCHANGED <<inputVars, procs, workflowVars, args, changeset_data, operations, config, exitCode, failure,
                   trace, clock, run, previous, issues, patcherVars>>

\* 893-916: the flag loads the patches, adjusts them for --amd-cores (16 when
\* not given) and puts them behind the changeset's own kernel patches; patches
\* that cannot be loaded only draw a warning.  918-929 only write to the log.
inject_amd_patches(cs, amd_cores, cache_file) ==
    LET amd_vanilla_patches ==
            GetDef(cs.d, "AmdVanillaPatches", GetDef(cs.d, "amd_vanilla_patches", BoolV(FALSE)))
        amd_patches == load_amd_vanilla_patches(cache_file)
        core_count == IF Truthy(amd_cores) THEN IntOf(amd_cores) ELSE 16
        modified_amd_patches == modify_amd_core_count_patches(amd_patches, core_count).returns
        existing_patches ==
            GetDef(cs.d, "KernelPatches", GetDef(cs.d, "kernel_patches", ListV(<<>>)))
    IN  IF Truthy(amd_vanilla_patches) /\ Truthy(amd_patches)
        THEN DictV(Put(cs.d, "KernelPatches",
                       IF Truthy(existing_patches)
                       THEN ListV(existing_patches.s \o modified_amd_patches.s)
                       ELSE modified_amd_patches))
        ELSE cs

AmdPatches ==
    /\ pc = "amd"
    /\ changeset_data' = inject_amd_patches(changeset_data, args.amd_cores, patches_cache)
    /\ pc' = "translate"
    /\ UNCHANGED <<inputVars, procs, workflowVars, args, operations, config, acpi_dir, exitCode, failure,
                   trace, clock, run, previous, issues, patcherVars>>

\* 931-933
Translate ==
    /\ pc = "translate"
    /\ IF changeset_to_operations_raises(changeset_data)
       THEN Fail("translate") /\ UNCHANGED operations
       ELSE /\ operations' = changeset_to_operations(changeset_data)
            /\ pc' = "serialize"
            /\ UNCHANGED <<exitCode, failure>>
    /\ UNCHANGED <<inputVars, procs, workflowVars, args, changeset_data, config, acpi_dir,
                   trace, clock, run, previous, issues, patcherVars>>

\* 935-940
Serialize ==
    /\ pc = "serialize"
    /\ IF ~json_dumps_ok(operations)
       THEN Fail("serialize") /\ UNCHANGED operations
       ELSE /\ operations' = json_dumps(operations)
            /\ pc' = "apply"
            /\ UNCHANGED <<exitCode, failure>>
    /\ UNCHANGED <<inputVars, procs, workflowVars, args, changeset_data, config, acpi_dir,
                   trace, clock, run, previous, issues, patcherVars>>

\* 942-946
DryRun ==
    /\ pc = "apply"
    /\ args.dry_run
    /\ pc' = "done"
    /\ exitCode' = "0"
    /\ UNCHANGED <<inputVars, procs, workflowVars, args, changeset_data, operations, config, acpi_dir, failure,
                   trace, clock, run, previous, issues, patcherVars>>

\* 952-961
CopyTemplate ==
    /\ pc = "apply"
    /\ ~args.dry_run
    /\ config' = template
    /\ pc' = "patch"
    /\ UNCHANGED <<inputVars, procs, workflowVars, args, changeset_data, operations, acpi_dir, exitCode, failure,
                   trace, clock, run, previous, issues, patcherVars>>

\* what the patcher process leaves behind: both blocks of patch-plist.py run,
\* each loads the plist, applies every operation and writes the plist back
patcher_process(plist, ops) ==
    LET first == script_block(plist, ops) IN
    IF ~first.ok THEN [ok |-> FALSE, plist |-> plist]
    ELSE IF plist_dump_raises(first.data) THEN [ok |-> FALSE, plist |-> TruncatedFile]
    ELSE LET second == patch_main(first.data, ops) IN
         IF ~second.ok THEN [ok |-> FALSE, plist |-> first.data]
         ELSE IF plist_dump_raises(second.data) THEN [ok |-> FALSE, plist |-> TruncatedFile]
         ELSE [ok |-> TRUE, plist |-> second.data]

\* 963-975, 980-983: subprocess.run(check=True)
RunPatcher ==
    /\ pc = "patch"
    /\ LET result == patcher_process(config, operations) IN
       /\ config' = result.plist
       /\ IF result.ok
          THEN pc' = "post" /\ trace' = trace \cup {"patched"} /\ UNCHANGED <<exitCode, failure>>
          ELSE Fail("patcher") /\ UNCHANGED trace
    /\ UNCHANGED <<inputVars, procs, workflowVars, args, changeset_data, operations, acpi_dir,
                   clock, run, previous, issues, patcherVars>>

\* 976-978, 985-987
PostProcess ==
    /\ pc = "post"
    /\ IF post_process_raises(config)
       THEN Fail("postprocess") /\ UNCHANGED <<config, trace, clock>>
       ELSE \E now \in clock..MaxClock :
               /\ config' = post_process_config(config, now)
               /\ clock' = now
               /\ trace' = trace \cup {"postprocessed"}
               /\ pc' = "validate"
               /\ UNCHANGED <<exitCode, failure>>
    /\ UNCHANGED <<inputVars, procs, workflowVars, args, changeset_data, operations, acpi_dir,
                   run, previous, issues, patcherVars>>

\* a main() that returns 0 whatever validate-config.py says
ValidateConfig_lenient ==
    /\ pc = "validate"
    /\ \E outcome \in {"passed", "failed", "not run"} : trace' = trace \cup {outcome}
    /\ exitCode' = "0"
    /\ pc' = "done"
    /\ UNCHANGED <<inputVars, procs, workflowVars, args, changeset_data, operations, config, acpi_dir, failure,
                   clock, run, previous, issues, patcherVars>>

\* 991-1020: validate-config.py passes, fails, or cannot be run
ValidateConfig ==
    /\ pc = "validate"
    /\ IF "validator" \in files
       THEN \E outcome \in {"passed", "failed", "not run"} :
               /\ trace' = trace \cup {outcome}
               /\ exitCode' = IF outcome = "failed" THEN "1" ELSE "0"
               /\ failure' = IF outcome = "failed" THEN "validation" ELSE failure
       ELSE /\ trace' = trace \cup {"skipped"}
            /\ exitCode' = "0"
            /\ UNCHANGED failure
    /\ pc' = "done"
    /\ UNCHANGED <<inputVars, procs, workflowVars, args, changeset_data, operations, config, acpi_dir,
                   clock, run, previous, issues, patcherVars>>

\* apply-changeset is invoked again with the same changeset and template
Reinvoke ==
    /\ pc = "done"
    /\ run < MaxRuns
    /\ run' = run + 1
    /\ previous' = IF "postprocessed" \in trace THEN config ELSE previous
    /\ pc' = "idle"
    /\ changeset_data' = NoneV
    /\ operations' = <<>>
    /\ exitCode' = "running"
    /\ failure' = "none"
    /\ trace' = {}
    /\ UNCHANGED <<inputVars, procs, workflowVars, args, config, acpi_dir, clock, issues, patcherVars>>

\* read-config.py <template> > <changeset>.yaml (tests/test-conversion.py 63-78)
ReadConfig ==
    /\ pc = "idle"
    /\ run = 1
    /\ ghost.family # "roundtrip"
    /\ "template" \in files
    /\ yaml' = read_config_plist(template)
    /\ ghost' = [family |-> "roundtrip", rom |-> <<>>, form |-> "none"]
    /\ files' = files \cup {"changeset"}
    /\ UNCHANGED <<workflowVars, template, patches_cache, procs, args, pc, changeset_data, operations, config, acpi_dir, exitCode,
                   failure, trace, clock, run, previous, issues, patcherVars>>

\* lib.changeset.load_changeset + validate_changeset_structure (21-36, 61-114)
LibValidate ==
    /\ pc = "idle"
    /\ run = 1
    /\ "changeset" \in files
    /\ yaml # InvalidYaml
    /\ issues' = lib_validate_changeset_structure(yaml)
    /\ pc' = "lib_done"
    /\ UNCHANGED <<inputVars, procs, workflowVars, args, changeset_data, operations, config, acpi_dir, exitCode,
                   failure, trace, clock, run, previous, patcherVars>>

(***************************************************************************)
(* scripts/patch-plist.py run on its own, one operation at a time.           *)
(***************************************************************************)
\* 65-70
PatchLoad ==
    /\ pc = "p_idle"
    /\ data' = config
    /\ i' = 1
    /\ pc' = "p_script"
    /\ UNCHANGED <<inputVars, procs, workflowVars, args, changeset_data, operations, config, acpi_dir, exitCode,
                   failure, trace, clock, run, previous, issues>>

\* 71-84
PatchScriptStep ==
    /\ pc = "p_script"
    /\ i <= Len(operations)
    /\ LET r == script_step(data, operations[i]) IN
       IF r.ok
       THEN data' = r.data /\ i' = i + 1 /\ UNCHANGED <<pc, exitCode, failure>>
       ELSE pc' = "p_done" /\ exitCode' = "1" /\ failure' = "patcher" /\ UNCHANGED <<data, i>>
    /\ UNCHANGED <<inputVars, procs, workflowVars, args, changeset_data, operations, config, acpi_dir,
                   trace, clock, run, previous, issues>>

\* 85
PatchScriptDump ==
    /\ pc = "p_script"
    /\ i > Len(operations)
    /\ IF plist_dump_raises(data)
       THEN /\ config' = TruncatedFile
            /\ pc' = "p_done" /\ exitCode' = "1" /\ failure' = "patcher"
       ELSE /\ config' = data
            /\ pc' = "p_main_load"
            /\ UNCHANGED <<exitCode, failure>>
    /\ UNCHANGED <<inputVars, procs, workflowVars, args, changeset_data, operations, acpi_dir,
                   trace, clock, run, previous, issues, patcherVars>>

\* 87-91
PatchMainLoad ==
    /\ pc = "p_main_load"
    /\ data' = config
    /\ i' = 1
    /\ pc' = "p_main"
    /\ UNCHANGED <<inputVars, procs, workflowVars, args, changeset_data, operations, config, acpi_dir, exitCode,
                   failure, trace, clock, run, previous, issues>>

\* 92-106
PatchMainStep ==
    /\ pc = "p_main"
    /\ i <= Len(operations)
    /\ LET r == main_step(data, operations[i]) IN
       IF r.ok
       THEN data' = r.data /\ i' = i + 1 /\ UNCHANGED <<pc, exitCode, failure>>
       ELSE pc' = "p_done" /\ exitCode' = "1" /\ failure' = "patcher" /\ UNCHANGED <<data, i>>
    /\ UNCHANGED <<inputVars, procs, workflowVars, args, changeset_data, operations, config, acpi_dir,
                   trace, clock, run, previous, issues>>

\* 107
PatchMainDump ==
    /\ pc = "p_main"
    /\ i > Len(operations)
    /\ IF plist_dump_raises(data)
       THEN config' = TruncatedFile /\ exitCode' = "1" /\ failure' = "patcher"
       ELSE config' = data /\ exitCode' = "0" /\ UNCHANGED failure
    /\ pc' = "p_done"
    /\ UNCHANGED <<inputVars, procs, workflowVars, args, changeset_data, operations, acpi_dir,
                   trace, clock, run, previous, issues, patcherVars>>

(***************************************************************************)
(* The scripts that fetch, build and deploy, one action per script: a step   *)
(* of the script with the outcome the environment gives it.  An outcome is   *)
(* "ok", "fail", or the branch the script finds itself on.                   *)
(***************************************************************************)
\* the process ends with code 0
Exit0 == "exit0"
\* sys.exit(1), return 1 or an uncaught exception
Exit1 == "exit1"

\* the step `pc` has had `outcome` and the script goes on at `nxt`
Advance(nxt, outcome, done) ==
    /\ trace' = trace \cup {pc}
    /\ failed' = IF outcome = "fail" THEN failed \cup {pc} ELSE failed
    /\ IF nxt \in {Exit0, Exit1}
       THEN /\ pc' = done
            /\ exitCode' = IF nxt = Exit0 THEN "0" ELSE "1"
            /\ failure' = IF nxt = Exit1 THEN pc ELSE failure
       ELSE pc' = nxt /\ UNCHANGED <<exitCode, failure>>
    /\ UNCHANGED <<inputVars, procs, args, changeset_data, operations, config, acpi_dir, clock, run,
                   previous, issues, patcherVars, backup, cache>>

\* the outcomes of a step of fetch-assets.py
fetch_assets_outcomes(step) ==
    CASE step = "f_cache" -> {"hit", "miss", "repo"}
      [] step = "f_download" -> {"hit", "ok", "fail"}
      [] step \in {"f_drivers", "f_amd"} -> {"none", "miss", "repo"}
      [] OTHER -> {"ok", "fail"}

\* main() of fetch-assets.py with fetch_kexts, fetch_drivers, fetch_amd_vanilla
\* and process_local_assets: the step that follows `step`
fetch_assets(step, outcome) ==
    CASE step = "f_commands" ->          \* 46-47: git and unzip are installed
            IF outcome = "ok" THEN "f_sources" ELSE Exit1
      [] step = "f_sources" ->           \* 50-51: config/sources.json is read
            IF outcome = "ok" THEN "f_cache" ELSE Exit1
      [] step = "f_cache" ->             \* 61-76, 92: is this version cached, is there a clone
            (CASE outcome = "hit" -> "f_files"
               [] outcome = "miss" -> "f_clone_ssh"
               [] outcome = "repo" -> "f_reset")
      [] step = "f_clone_ssh" ->         \* 78-84
            IF outcome = "ok" THEN "f_tags" ELSE "f_clone_https"
      [] step = "f_clone_https" ->       \* 85-91
            IF outcome = "ok" THEN "f_tags" ELSE Exit1
      [] step = "f_reset" ->             \* 92-95
            IF outcome = "ok" THEN "f_tags" ELSE Exit1
      [] step = "f_tags" ->              \* 103-104, 112-113: no tag listed, HEAD is used
            IF outcome = "ok" THEN "f_checkout" ELSE "f_download"
      [] step = "f_checkout" ->          \* 105-108
            IF outcome = "ok" THEN "f_download" ELSE "f_fetch_tag"
      [] step = "f_fetch_tag" ->         \* 109-111
            IF outcome = "ok" THEN "f_download" ELSE Exit1
      [] step = "f_download" ->          \* 120-132: the release zip, unless it is cached
            IF outcome = "fail" THEN Exit1 ELSE "f_extract"
      [] step = "f_extract" ->           \* 134-142
            IF outcome = "ok" THEN "f_files" ELSE Exit1
      [] step = "f_files" ->             \* 144-189: X64, OpenCore.efi, BOOTx64.efi, OpenRuntime.efi
            IF outcome = "ok" THEN "f_kexts" ELSE Exit1
      [] step = "f_kexts" ->             \* 218-387: a kext that fails is reported and passed over
            "f_drivers"
      [] step = "f_drivers" ->           \* 389-407
            (CASE outcome = "none" -> "f_amd"
               [] outcome = "miss" -> "f_drivers_ssh"
               [] outcome = "repo" -> "f_drivers_pull")
      [] step = "f_drivers_ssh" ->       \* 409-413
            IF outcome = "ok" THEN "f_drivers_copy" ELSE "f_drivers_https"
      [] step = "f_drivers_https" ->     \* 414-416
            IF outcome = "ok" THEN "f_drivers_copy" ELSE Exit1
      [] step = "f_drivers_pull" ->      \* 417-421
            IF outcome = "ok" THEN "f_drivers_copy" ELSE Exit1
      [] step = "f_drivers_copy" ->      \* 423-434: a driver not found is reported
            "f_amd"
      [] step = "f_amd" ->               \* 436-449
            (CASE outcome = "none" -> "f_local"
               [] outcome = "miss" -> "f_amd_ssh"
               [] outcome = "repo" -> "f_amd_update")
      [] step = "f_amd_ssh" ->           \* 451-455
            IF outcome = "ok" THEN "f_amd_copy" ELSE "f_amd_https"
      [] step = "f_amd_https" ->         \* 456-458
            IF outcome = "ok" THEN "f_amd_copy" ELSE Exit1
      [] step = "f_amd_update" ->        \* 459-464
            IF outcome = "ok" THEN "f_amd_copy" ELSE Exit1
      [] step = "f_amd_copy" ->          \* 466-474: patches.plist not found is reported
            "f_local"
      [] step = "f_local" ->             \* 476-521: a zip that fails is reported; 216: ready
            Exit0

FetchAssets ==
    /\ ghost.family = "fetch-assets"
    /\ pc # "f_done"
    /\ \E outcome \in fetch_assets_outcomes(pc) :
          Advance(fetch_assets(pc, outcome), outcome, "f_done")

\* a workflow that goes on to its next step whatever the outcome
full_usb_workflow_continuing(step, outcome, eject) ==
    CASE step = "u_changeset" -> "u_apply"
      [] step = "u_apply" -> "u_populate"
      [] step = "u_populate" -> "u_assets"
      [] step = "u_assets" -> "u_iso"
      [] step = "u_iso" -> "u_usb"
      [] step = "u_usb" -> "u_deploy"
      [] OTHER -> Exit0

\* full_usb_workflow and main() of full-usb.py: the step that follows `step`
full_usb_workflow(step, outcome, eject) ==
    CASE step = "u_changeset" ->         \* 184-188
            IF outcome = "ok" THEN "u_apply" ELSE Exit1
      [] step = "u_apply" ->             \* 190-196: apply-changeset.py
            IF outcome = "ok" THEN "u_populate" ELSE Exit1
      [] step = "u_populate" ->          \* 198-205: populate_efi_assets raises
            IF outcome = "ok" THEN "u_assets" ELSE Exit1
      [] step = "u_assets" ->            \* 83-174: an asset not found draws a warning
            "u_iso"
      [] step = "u_iso" ->               \* 207-219: build-iso.py
            IF outcome = "ok" THEN "u_usb" ELSE Exit1
      [] step = "u_usb" ->               \* 221-236: build-usb.py
            IF outcome = "ok" THEN "u_deploy" ELSE Exit1
      [] step = "u_deploy" ->            \* 238-246, 268-271: deploy-usb.py
            IF outcome = "ok" /\ eject THEN "u_eject" ELSE Exit0
      [] step = "u_eject" ->             \* 248-266
            Exit0

FullUsb ==
    /\ ghost.family = "full-usb"
    /\ pc # "u_done"
    /\ \E outcome \in {"ok", "fail"} :
          Advance(full_usb_workflow(pc, outcome, args.eject), outcome, "u_done")

\* main() of deploy-usb.py: the step that follows `step`
deploy_usb(step, outcome) ==
    CASE step = "d_source" ->            \* 123-127: the built EFI tree exists
            IF outcome = "ok" THEN "d_volumes" ELSE Exit1
      [] step = "d_volumes" ->           \* 129-134: no Install volume, exit 0
            IF outcome = "ok" THEN "d_disk" ELSE Exit0
      [] step = "d_disk" ->              \* 146-150
            IF outcome = "ok" THEN "d_partition" ELSE Exit1
      [] step = "d_partition" ->         \* 156-159: no EFI partition, exit 0
            IF outcome = "ok" THEN "d_mount" ELSE Exit0
      [] step = "d_mount" ->             \* 161-165
            IF outcome = "ok" THEN "d_copy" ELSE Exit1
      [] step = "d_copy" ->              \* 88-99: rm and cp by run_command, result not read
            "d_verify"
      [] step = "d_verify" ->            \* 101-112, 167-175: the critical files are there
            IF outcome = "ok" THEN Exit0 ELSE Exit1

DeployUsb ==
    /\ ghost.family = "deploy-usb"
    /\ pc # "d_done"
    /\ \E outcome \in {"ok", "fail"} :
          Advance(deploy_usb(pc, outcome), outcome, "d_done")

(***************************************************************************)
(* lib/changeset.py: a changeset rewritten in place.                         *)
(***************************************************************************)
\* save_changeset (38-59).  `copies` tells whether shutil.copy2 succeeds,
\* `writes` how the write ends: "ok", "open" (open() raises, the file is as
\* it was) or "dump" (yaml.safe_dump raises, the file is cut short)
save_changeset(file, bak, changeset, with_backup, copies, writes) ==
    [bak |-> IF with_backup /\ file # NoneV /\ copies THEN file ELSE bak,
     file |-> CASE writes = "ok" -> changeset
                [] writes = "open" -> file
                [] writes = "dump" -> TruncatedFile,
     saved |-> writes = "ok"]

\* the sections written by generate-smbios.py and amd-vanilla.py
SectionUpdates ==
    {<<"smbios", DictV("SystemSerialNumber" :> Text("NEW"))>>,
     <<"kernel_patches", ListV(<<DictV("Comment" :> Text("amd"))>>)>>}

\* update_changeset_section (217-224): load, set the section, save
UpdateSection ==
    /\ ghost.family = "save"
    /\ pc = "s_idle"
    /\ run <= MaxRuns
    /\ yaml # TruncatedFile
    /\ \E section \in SectionUpdates, copies \in BOOLEAN, writes \in {"ok", "open", "dump"} :
          LET changeset == DictV(Put(yaml.d, section[1], section[2]))
              r == save_changeset(yaml, backup, changeset, args.backup, copies, writes)
          IN  /\ yaml' = r.file
              /\ backup' = r.bak
              /\ trace' = {IF r.saved THEN "saved" ELSE "not saved"}
    /\ run' = run + 1
    /\ UNCHANGED <<template, ghost, files, patches_cache, procs, args, pc, changeset_data, operations, config, acpi_dir,
                   exitCode, failure, clock, previous, issues, patcherVars, failed, cache>>

\* remove_changeset_section (226-237): nothing is saved when the section is absent
RemoveSection ==
    /\ ghost.family = "save"
    /\ pc = "s_idle"
    /\ run <= MaxRuns
    /\ yaml # TruncatedFile
    /\ \E section_name \in {"smbios", "kernel_patches"}, copies \in BOOLEAN,
          writes \in {"ok", "open", "dump"} :
          IF section_name \in DOMAIN yaml.d
          THEN LET r == save_changeset(yaml, backup, DictV(Drop(yaml.d, section_name)),
                                       args.backup, copies, writes)
               IN  /\ yaml' = r.file
                   /\ backup' = r.bak
                   /\ trace' = {IF r.saved THEN "saved" ELSE "not saved"}
          ELSE /\ trace' = {"section not found"}
               /\ UNCHANGED <<yaml, backup>>
    /\ run' = run + 1
    /\ UNCHANGED <<template, ghost, files, patches_cache, procs, args, pc, changeset_data, operations, config, acpi_dir,
                   exitCode, failure, clock, previous, issues, patcherVars, failed, cache>>

(***************************************************************************)
(* workflows/full-deploy.py and the builder of lib/efi_builder.py.           *)
(***************************************************************************)
\* a or b
Or(a, b) == IF Truthy(a) THEN a ELSE b
\* the names a list of entries gives under one of two keys, blank ones left out
Named(list, k1, k2) ==
    IF ~IsList(list) THEN {}
    ELSE {name \in {Or(EntryGet(list.s[n], k1), EntryGet(list.s[n], k2)) : n \in 1..Len(list.s)} :
             Truthy(name)}

\* _canonical_asset_requirements (33-87): each list without duplicates, sorted
canonical_asset_requirements(changeset) ==
    LET kexts == Or(Get(changeset.d, "Kexts"), Or(Get(changeset.d, "kexts"),
                    Or(Get(changeset.d, "KernelAdd"), Get(changeset.d, "kernel_add"))))
        drivers == Get(changeset.d, "UefiDrivers")
        acpi == Or(Get(changeset.d, "AcpiAdd"), Get(changeset.d, "acpi_add"))
    IN  [kexts |-> Named(kexts, "bundle", "BundlePath"),
         drivers |-> Named(drivers, "path", "Path"),
         acpi |-> IF ~IsList(acpi) THEN {}
                  ELSE {acpi.s[n] : n \in {m \in 1..Len(acpi.s) : IsStr(acpi.s[m])}}
                       \cup Named(acpi, "Path", "path")]

\* _hash_requirements (90-92): SHA-256 of the canonical JSON, taken as free of collisions
hash_requirements(req) == [sha256 |-> req]

\* a builder that fetches on every build
assets_stale_always(force_rebuild, old_hash, new_hash, kexts) == TRUE

\* build_complete_efi_structure 288-297 with _ensure_assets_fresh_for_changeset
\* 119-124: is fetch-assets.py run
assets_stale(force_rebuild, old_hash, new_hash, kexts) ==
    force_rebuild \/ old_hash # new_hash \/ kexts = {}

\* return False, return 1
Ends(code, why) == pc' = "w_done" /\ exitCode' = code /\ failure' = why
Goes(next) == pc' = next /\ UNCHANGED <<exitCode, failure>>
BuildFrame ==
    UNCHANGED <<template, ghost, files, patches_cache, procs, changeset_data, operations, config, acpi_dir, clock,
                previous, issues, patcherVars, backup>>

\* main() of full-deploy.py (227-281)
DeployMain ==
    /\ pc = "w_idle"
    /\ IF \/ args.iso_only /\ args.force
          \/ args.build_only /\ args.force
          \/ args.iso_only /\ args.build_only
       THEN Ends("1", "arguments")
       ELSE Goes("w_step1")
    /\ BuildFrame
    /\ UNCHANGED <<yaml, args, trace, run, failed, cache>>

\* full_deploy_workflow, step 1 (27-50)
DeployApply ==
    /\ pc = "w_step1"
    /\ IF args.iso_only \/ args.build_only
       THEN Goes("w_build") /\ UNCHANGED <<trace, failed>>
       ELSE \E outcome \in {"ok", "fail"} :
               IF outcome = "ok"
               THEN Goes("w_build") /\ trace' = trace \cup {"applied"} /\ UNCHANGED failed
               ELSE Ends("1", "apply") /\ failed' = failed \cup {"apply"} /\ UNCHANGED trace
    /\ BuildFrame
    /\ UNCHANGED <<yaml, args, run, cache>>

\* full_deploy_workflow 53-70 with build_iso_artifact 422-427 and
\* build_img_artifact 451-456: the artifact builders want ocvalidate
BuildTools ==
    /\ pc = "w_build"
    /\ IF ~args.local_efi /\ ~cache.tools
       THEN Ends("1", "tools")
       ELSE Goes("b_assets")
    /\ BuildFrame
    /\ UNCHANGED <<yaml, args, trace, run, failed, cache>>

\* build_complete_efi_structure 288-297 and _ensure_assets_fresh_for_changeset
\* (100-137).  fetch-assets.py leaves the kexts it could download; the hash
\* file is written ("ok"), cannot be opened ("open") or is cut short ("write")
BuildAssets ==
    /\ pc = "b_assets"
    /\ LET new_hash == hash_requirements(canonical_asset_requirements(yaml))
           old_hash == cache.hash
       IN  IF ~assets_stale(args.force, old_hash, new_hash, cache.kexts)
           THEN Goes("b_apply") /\ UNCHANGED <<trace, failed, cache>>
           ELSE \E outcome \in {"ok", "fail"}, got \in SUBSET SourceKexts,
                   writes \in {"ok", "open", "write"} :
                   IF outcome = "fail"
                   THEN /\ Ends("1", "fetch")
                        /\ failed' = failed \cup {"fetch"}
                        /\ UNCHANGED <<trace, cache>>
                   ELSE /\ Goes("b_apply")
                        /\ trace' = trace \cup {"fetched"}
                        /\ failed' = IF ~args.force /\ writes # "ok"
                                     THEN failed \cup {"hash"} ELSE failed
                        /\ cache' = [hash |-> CASE args.force \/ writes = "open" -> old_hash
                                                [] writes = "ok" -> new_hash
                                                [] OTHER -> Empty,
                                     kexts |-> cache.kexts \cup got,
                                     tools |-> TRUE]
    /\ BuildFrame
    /\ UNCHANGED <<yaml, args, run>>

\* build_complete_efi_structure 299-305, with apply_changeset as
\* full_deploy_workflow passes it (57-58, 65-68): not applied_already
BuildApply ==
    /\ pc = "b_apply"
    /\ LET applied_already == ~(args.iso_only \/ args.build_only)
           apply_changeset == ~applied_already
       IN  IF ~apply_changeset
           THEN Goes("b_kexts") /\ UNCHANGED <<trace, failed>>
           ELSE \E outcome \in {"ok", "fail"} :
                   IF outcome = "ok"
                   THEN Goes("b_kexts") /\ trace' = trace \cup {"applied"} /\ UNCHANGED failed
                   ELSE Ends("1", "apply") /\ failed' = failed \cup {"apply"} /\ UNCHANGED trace
    /\ BuildFrame
    /\ UNCHANGED <<yaml, args, run, cache>>

\* manage_changeset_kexts (139-199): the kexts the changeset does not list
\* under Kexts are removed, a listed one that is missing ends the build
BuildKexts ==
    /\ pc = "b_kexts"
    /\ IF "Kexts" \notin DOMAIN yaml.d
       THEN Goes("b_validate") /\ UNCHANGED cache
       ELSE LET changeset_kexts ==
                    {yaml.d["Kexts"].s[n].d["bundle"] : n \in 1..Len(yaml.d["Kexts"].s)}
            IN  /\ cache' = [cache EXCEPT !.kexts = cache.kexts \cap changeset_kexts]
                /\ IF changeset_kexts \subseteq cache.kexts
                   THEN Goes("b_validate")
                   ELSE Ends("1", "kexts")
    /\ BuildFrame
    /\ UNCHANGED <<yaml, args, trace, run, failed>>

\* a build that does not validate
BuildValidate_skipping ==
    /\ pc = "b_validate"
    /\ Goes(IF args.local_efi THEN "w_local" ELSE "b_package")
    /\ BuildFrame
    /\ UNCHANGED <<yaml, args, run, cache, trace, failed>>

\* build_efi_then_validate (408-416) with _validate_config_if_available (398-405)
BuildValidate ==
    /\ pc = "b_validate"
    /\ LET next == IF args.local_efi THEN "w_local" ELSE "b_package" IN
       IF args.no_validate THEN Goes(next) /\ UNCHANGED <<trace, failed>>
       ELSE IF cache.tools /\ "validator" \in files
       THEN \E outcome \in {"ok", "fail"} :
               /\ trace' = trace \cup {"validated"}
               /\ IF outcome = "ok"
                  THEN Goes(next) /\ UNCHANGED failed
                  ELSE Ends("1", "validation") /\ failed' = failed \cup {"validation"}
       ELSE Goes(next) /\ UNCHANGED <<trace, failed>>
    /\ BuildFrame
    /\ UNCHANGED <<yaml, args, run, cache>>

\* build_iso_artifact 429-445, build_img_artifact 458-: the ISO or IMG is made
BuildPackage ==
    /\ pc = "b_package"
    /\ \E outcome \in {"ok", "fail"} :
          IF outcome = "ok"
          THEN Goes("w_deploy") /\ trace' = trace \cup {"packaged"} /\ UNCHANGED failed
          ELSE Ends("1", "package") /\ failed' = failed \cup {"package"} /\ UNCHANGED trace
    /\ BuildFrame
    /\ UNCHANGED <<yaml, args, run, cache>>

\* full_deploy_workflow 61-62: return deploy_to_local_efi(changeset_name) (294-364)
DeployLocal ==
    /\ pc = "w_local"
    /\ \E outcome \in {"ok", "fail"} :
          IF outcome = "ok"
          THEN Ends("0", failure) /\ trace' = trace \cup {"deployed locally"} /\ UNCHANGED failed
          ELSE Ends("1", "deploy") /\ failed' = failed \cup {"deploy"} /\ UNCHANGED trace
    /\ BuildFrame
    /\ UNCHANGED <<yaml, args, run, cache>>

\* full_deploy_workflow 72-94: build-only ends here, else deploy_iso or deploy_img
DeployRemote ==
    /\ pc = "w_deploy"
    /\ IF args.build_only
       THEN Ends("0", failure) /\ UNCHANGED <<trace, failed>>
       ELSE \E outcome \in {"ok", "fail"} :
               IF outcome = "ok"
               THEN Ends("0", failure) /\ trace' = trace \cup {"deployed"} /\ UNCHANGED failed
               ELSE Ends("1", "deploy") /\ failed' = failed \cup {"deploy"} /\ UNCHANGED trace
    /\ BuildFrame
    /\ UNCHANGED <<yaml, args, run, cache>>

\* full-deploy.py is run again, with other flags or an edited changeset
Redeploy ==
    /\ pc = "w_done"
    /\ ghost.family = "full-deploy"
    /\ run < MaxRuns
    /\ run' = run + 1
    /\ args' \in DeployArgs
    /\ yaml' \in BuildChangesets
    /\ pc' = "w_idle"
    /\ exitCode' = "running"
    /\ failure' = "none"
    /\ trace' = {}
    /\ failed' = {}
    /\ BuildFrame
    /\ UNCHANGED cache

(***************************************************************************)
(* scripts/amd-vanilla.py test: cmd_test_patches (89-127).                   *)
(***************************************************************************)
\* the patches are loaded, modified for --cores and the core count patches
\* printed; data holds the locals amd_patches and modified_patches
TestPatches ==
    /\ pc = "t_idle"
    /\ LET amd_patches == load_amd_vanilla_patches(patches_cache) IN
       IF ~Truthy(amd_patches)
       THEN /\ exitCode' = "1" /\ failure' = "patches"
            /\ UNCHANGED data
       ELSE LET r == modify_amd_core_count_patches(amd_patches, args.cores) IN
            /\ data' = [amd_patches |-> r.patches, modified_patches |-> r.returns]
            /\ exitCode' = "0"
            /\ UNCHANGED failure
    /\ pc' = "t_done"
    /\ UNCHANGED <<inputVars, procs, workflowVars, args, changeset_data, operations, config, acpi_dir,
                   trace, clock, run, previous, issues, i>>

(***************************************************************************)
(* main() of scripts/plist-to-changeset.py (468-526) with save_changeset     *)
(* (454-466); config is the plist given, yaml the changeset file written.    *)
(***************************************************************************)
ConvertPlist ==
    /\ pc = "c_idle"
    /\ LET changeset == convert_plist_to_changeset(config) IN
       IF config = NoneV
       THEN exitCode' = "1" /\ failure' = "plist missing" /\ UNCHANGED <<yaml, changeset_data>>
       ELSE IF yaml # NoneV /\ ~args.force
       THEN exitCode' = "1" /\ failure' = "changeset exists" /\ UNCHANGED <<yaml, changeset_data>>
       ELSE IF ~Truthy(changeset)
       THEN exitCode' = "1" /\ failure' = "conversion" /\ changeset_data' = changeset
            /\ UNCHANGED yaml
       ELSE /\ changeset_data' = changeset
            /\ yaml' = convert_bytes_to_strings(changeset)
            /\ exitCode' = "0"
            /\ UNCHANGED failure
    /\ pc' = "c_done"
    /\ UNCHANGED <<workflowVars, template, ghost, files, patches_cache, procs, args, operations, config,
                   acpi_dir, trace, clock, run, previous, issues, patcherVars>>

(***************************************************************************)
(* Two apply-changeset.py invocations on one project directory.  Each has    *)
(* its own changeset, operations and loaded plist; out/build/efi/EFI/OC/     *)
(* config.plist and EFI/OC/ACPI are shared.  A step is one access to a file: *)
(* open(..., "wb") empties the file, the dump that follows fills it.         *)
(***************************************************************************)
\* the invocations that are running: none, or 1 and 2
Procs == DOMAIN procs
Other(p) == 3 - p
ConcurrentFrame ==
    UNCHANGED <<inputVars, workflowVars, args, pc, changeset_data, operations, exitCode, failure,
                trace, clock, run, previous, issues, patcherVars>>
Proceeds(p, to) == procs' = [procs EXCEPT ![p].pc = to]
Returns(p, code) == procs' = [procs EXCEPT ![p].pc = "done", ![p].exitCode = code]
\* between the copy of the template and the last write of post_process_config
InSection(p) ==
    procs[p].pc \in {"copy_write", "script_load", "script_open", "script_write", "main_load",
                     "main_open", "main_write", "post_load", "post_open", "post_write",
                     "format_read", "format_open", "format_write"}

\* plistlib.load(open(path, "rb")) of a file another process has emptied raises
LoadPlist(p, from, to) ==
    /\ procs[p].pc = from
    /\ IF IsDict(config)
       THEN procs' = [procs EXCEPT ![p].pc = to, ![p].data = config]
       ELSE Returns(p, "1")
    /\ UNCHANGED <<config, acpi_dir>>
    /\ ConcurrentFrame

\* the operations are applied to the loaded plist, then open(path, "wb")
OpenForWriting(p, from, to, result) ==
    /\ procs[p].pc = from
    /\ IF result.ok
       THEN /\ procs' = [procs EXCEPT ![p].pc = to, ![p].data = result.data]
            /\ config' = TruncatedFile
       ELSE Returns(p, "1") /\ UNCHANGED config
    /\ UNCHANGED acpi_dir
    /\ ConcurrentFrame

\* plistlib.dump(data, f)
WriteOut(p, from, to) ==
    /\ procs[p].pc = from
    /\ IF plist_dump_raises(procs[p].data)
       THEN Returns(p, "1") /\ config' = TruncatedFile
       ELSE Proceeds(p, to) /\ config' = procs[p].data
    /\ UNCHANGED acpi_dir
    /\ ConcurrentFrame

\* main() 883-940: structure, NVRAM mirror, ACPI files, AMD patches, operations
ConcurrentPrepare(p) ==
    /\ procs[p].pc = "start"
    /\ LET cs == procs[p].changeset
           mirrored == apply_platform_info_to_nvram(cs)
           acpi_add == GetDef(mirrored.d, "AcpiAdd", Get(mirrored.d, "acpi_add"))
           injected == inject_amd_patches(mirrored, args.amd_cores, patches_cache)
       IN  IF validate_changeset_structure_exits(cs)
           THEN Returns(p, "1") /\ UNCHANGED acpi_dir
           ELSE /\ acpi_dir' = IF Truthy(acpi_add) THEN copy_acpi_files(acpi_dir, acpi_add)
                               ELSE acpi_dir
                /\ IF changeset_to_operations_raises(injected)
                   THEN Returns(p, "1")
                   ELSE IF ~json_dumps_ok(changeset_to_operations(injected))
                   THEN Returns(p, "1")
                   ELSE procs' = [procs EXCEPT
                            ![p].pc = "copy_open",
                            ![p].operations = json_dumps(changeset_to_operations(injected))]
    /\ UNCHANGED config
    /\ ConcurrentFrame

\* a copy that waits while the other invocation works on config.plist
ConcurrentCopy_locked(p) ==
    /\ procs[p].pc = "copy_open"
    /\ ~InSection(Other(p))
    /\ config' = TruncatedFile
    /\ Proceeds(p, "copy_write")
    /\ UNCHANGED acpi_dir
    /\ ConcurrentFrame

\* 958-960: shutil.copy2 opens config.plist for writing ...
ConcurrentCopy(p) ==
    /\ procs[p].pc = "copy_open"
    /\ config' = TruncatedFile
    /\ Proceeds(p, "copy_write")
    /\ UNCHANGED acpi_dir
    /\ ConcurrentFrame

\* ... and copies the template into it
ConcurrentCopyWrite(p) ==
    /\ procs[p].pc = "copy_write"
    /\ config' = template
    /\ Proceeds(p, "script_load")
    /\ UNCHANGED acpi_dir
    /\ ConcurrentFrame

\* patch-plist.py 65-84, the block at the top of the script
ScriptLoad(p) == LoadPlist(p, "script_load", "script_open")
ScriptOpen(p) ==
    OpenForWriting(p, "script_open", "script_write", script_block(procs[p].data, procs[p].operations))
ScriptWrite(p) == WriteOut(p, "script_write", "main_load")

\* patch-plist.py 86-108, main()
MainLoad(p) == LoadPlist(p, "main_load", "main_open")
MainOpen(p) ==
    OpenForWriting(p, "main_open", "main_write", patch_main(procs[p].data, procs[p].operations))
MainWrite(p) == WriteOut(p, "main_write", "post_load")

\* post_process_config 709-845
PostLoad(p) == LoadPlist(p, "post_load", "post_open")
PostOpen(p) ==
    OpenForWriting(p, "post_open", "post_write",
                   [ok |-> ~post_process_raises(procs[p].data),
                    data |-> IF post_process_raises(procs[p].data) THEN procs[p].data
                             ELSE post_process_config(procs[p].data, clock)])
PostWrite(p) == WriteOut(p, "post_write", "format_read")

\* 847-849: the text of the file is read, whatever it holds
FormatRead(p) ==
    /\ procs[p].pc = "format_read"
    /\ procs' = [procs EXCEPT ![p].pc = "format_open", ![p].data = config]
    /\ UNCHANGED <<config, acpi_dir>>
    /\ ConcurrentFrame

\* 854: open(config_path, "w")
FormatOpen(p) ==
    /\ procs[p].pc = "format_open"
    /\ config' = TruncatedFile
    /\ Proceeds(p, "format_write")
    /\ UNCHANGED acpi_dir
    /\ ConcurrentFrame

\* 855: the formatted text is written back
FormatWrite(p) ==
    /\ procs[p].pc = "format_write"
    /\ config' = procs[p].data
    /\ Proceeds(p, "validate")
    /\ UNCHANGED acpi_dir
    /\ ConcurrentFrame

\* 991-1020: validate-config.py cannot pass a file that is no property list
ConcurrentValidate(p) ==
    /\ procs[p].pc = "validate"
    /\ IF "validator" \in files
       THEN \E outcome \in {"passed", "failed", "not run"} :
               /\ outcome = "passed" => IsDict(config)
               /\ Returns(p, IF outcome = "failed" THEN "1" ELSE "0")
       ELSE Returns(p, "0")
    /\ UNCHANGED <<config, acpi_dir>>
    /\ ConcurrentFrame

\* the next step of invocation p
ConcurrentStep(p) ==
    \/ ConcurrentPrepare(p) \/ ConcurrentCopy(p) \/ ConcurrentCopyWrite(p)
    \/ ScriptLoad(p) \/ ScriptOpen(p) \/ ScriptWrite(p)
    \/ MainLoad(p) \/ MainOpen(p) \/ MainWrite(p)
    \/ PostLoad(p) \/ PostOpen(p) \/ PostWrite(p)
    \/ FormatRead(p) \/ FormatOpen(p) \/ FormatWrite(p)
    \/ ConcurrentValidate(p)

Next ==
    \/ \E p \in Procs : ConcurrentPrepare(p)
    \/ \E p \in Procs : ConcurrentCopy(p)
    \/ \E p \in Procs : ConcurrentCopyWrite(p)
    \/ \E p \in Procs : ScriptLoad(p)
    \/ \E p \in Procs : ScriptOpen(p)
    \/ \E p \in Procs : ScriptWrite(p)
    \/ \E p \in Procs : MainLoad(p)
    \/ \E p \in Procs : MainOpen(p)
    \/ \E p \in Procs : MainWrite(p)
    \/ \E p \in Procs : PostLoad(p)
    \/ \E p \in Procs : PostOpen(p)
    \/ \E p \in Procs : PostWrite(p)
    \/ \E p \in Procs : FormatRead(p)
    \/ \E p \in Procs : FormatOpen(p)
    \/ \E p \in Procs : FormatWrite(p)
    \/ \E p \in Procs : ConcurrentValidate(p)
    \/ TestPatches
    \/ ConvertPlist
    \/ ParseArgs
    \/ ValidateFiles
    \/ LoadChangeset
    \/ ValidateStructure
    \/ MirrorNvram
    \/ CopyAcpi
    \/ AmdPatches
    \/ Translate
    \/ Serialize
    \/ DryRun
    \/ CopyTemplate
    \/ RunPatcher
    \/ PostProcess
    \/ ValidateConfig
    \/ Reinvoke
    \/ ReadConfig
    \/ LibValidate
    \/ PatchLoad
    \/ PatchScriptStep
    \/ PatchScriptDump
    \/ PatchMainLoad
    \/ PatchMainStep
    \/ PatchMainDump
    \/ FetchAssets
    \/ FullUsb
    \/ DeployUsb
    \/ UpdateSection
    \/ RemoveSection
    \/ DeployMain
    \/ DeployApply
    \/ BuildTools
    \/ BuildAssets
    \/ BuildApply
    \/ BuildKexts
    \/ BuildValidate
    \/ BuildPackage
    \/ DeployLocal
    \/ DeployRemote
    \/ Redeploy

Spec == Init /\ [][Next]_vars

(***************************************************************************)
(* Properties.                                                               *)
(***************************************************************************)
\* apply-changeset has written config.plist in this invocation
Written == pc \in {"validate", "done"} /\ "postprocessed" \in trace
KernelAdd(plist) == AtPath(plist, <<"Kernel", "Add">>).s
DeclaredKexts == KextsOf(yaml).s
Distinct(seq) == \A m, n \in 1..Len(seq) : m # n => seq[m] # seq[n]
BundlePaths(add) == [n \in 1..Len(add) |-> EntryGet(add[n], "BundlePath")]

\* C1 as stated: for any changeset declaring a list of kexts, Kernel.Add of the
\* output holds exactly one entry per declared bundle path: every declared
\* bundle has an entry, no two entries share a BundlePath, no other entries.
C1_AsStated ==
    (Written /\ ghost.family = "kexts" /\ IsList(KextsOf(yaml))) =>
        /\ {BundlePaths(KernelAdd(config))[n] : n \in 1..Len(KernelAdd(config))}
              = {DeclaredKexts[n].d["bundle"] : n \in 1..Len(DeclaredKexts)}
        /\ Distinct(BundlePaths(KernelAdd(config)))

\* C1 amended: for a changeset declaring a non-empty list of kexts, Kernel.Add
\* of the output holds one enabled entry per declared item, in the declared
\* order and nothing else (so no two entries share a BundlePath when the
\* declared bundle paths are distinct), and a repeated apply with the same
\* changeset leaves the same array.  A bundle declared twice gets two entries.
C1_KernelAddIsDeclaredList ==
    (Written /\ ghost.family = "kexts" /\ IsList(KextsOf(yaml)) /\ Len(DeclaredKexts) > 0) =>
        /\ Len(KernelAdd(config)) = Len(DeclaredKexts)
        /\ \A n \in 1..Len(DeclaredKexts) :
              /\ BundlePaths(KernelAdd(config))[n] = DeclaredKexts[n].d["bundle"]
              /\ EnabledIsTrue(KernelAdd(config)[n])
        /\ Distinct([n \in 1..Len(DeclaredKexts) |-> DeclaredKexts[n].d["bundle"]])
              => Distinct(BundlePaths(KernelAdd(config)))
        /\ previous # NoneV => KernelAdd(previous) = KernelAdd(config)

\* two distinct bundles declared, applied for the second time onto a template
\* that has kexts of its own
C1_Witness ==
    /\ Written /\ ghost.family = "kexts" /\ run = 2 /\ previous # NoneV
    /\ IsList(KextsOf(yaml)) /\ Len(DeclaredKexts) = 2
    /\ Distinct(BundlePaths(KernelAdd(config)))
    /\ Len(KernelAdd(template)) = 2

\* no two dict entries of the array have the same value of the key field
NoDupKey(arr, key) ==
    \A m, n \in 1..Len(arr) :
        (m # n /\ IsDict(arr[m]) /\ IsDict(arr[n])) => EntryGet(arr[m], key) # EntryGet(arr[n], key)
\* patch-plist.py is inside one of its two loops
InLoop == pc \in {"p_script", "p_main"}
\* operation number n of the list is an append with a key field
KeyedAppend(n) ==
    n \in 1..Len(operations) /\ operations[n].op = "append" /\ OpKey(operations[n]) # NoKey

\* C2 as stated: after any append operation with a key field the array holds
\* no two entries with the same value of the discriminator field.
C2_AsStated ==
    (InLoop /\ KeyedAppend(i - 1)) =>
        NoDupKey(ensure_array(data, operations[i - 1].path), OpKey(operations[i - 1]))

\* C2 amended: append_unique with a key field never adds an entry whose
\* discriminator value the array already holds: an array with no two entries
\* of the same discriminator value before an append has none after it, hence
\* none after any sequence of appends.  Duplicates already in the array (from
\* the plist or a set operation) stay.
C2_AppendKeepsUnique ==
    [][(/\ InLoop /\ KeyedAppend(i) /\ i' = i + 1
        /\ NoDupKey(ensure_array(data, operations[i].path), OpKey(operations[i])))
       => NoDupKey(ensure_array(data', operations[i].path), OpKey(operations[i]))]_vars

\* an append met an entry with its key value, and the array holds two entries
C2_Witness ==
    /\ InLoop /\ i = 3 /\ KeyedAppend(1) /\ KeyedAppend(2)
    /\ operations[1].entry # operations[2].entry
    /\ EntryGet(operations[1].entry, "Path") = EntryGet(operations[2].entry, "Path")
    /\ Len(ensure_array(data, DriversPath)) = 2
    /\ NoDupKey(ensure_array(data, DriversPath), "Path")

KernelPatch(plist) == AtPath(plist, <<"Kernel", "Patch">>).s
PatchesAreBytes(plist) ==
    \A n \in 1..Len(KernelPatch(plist)) :
        \A field \in PatchBinarySet \cap DOMAIN KernelPatch(plist)[n].d :
            IsBytes(KernelPatch(plist)[n].d[field])
IsBytesAt(plist, path) == HasPath(plist, path) => IsBytes(AtPath(plist, path))
\* the changeset spells ROM, if it has one, as an integer list, as raw bytes or
\* as hexadecimal digits (spaces allowed)
RomSpellingAccepted ==
    (IsDict(yaml) /\ HasGeneric(yaml) /\ "ROM" \in DOMAIN yaml.d["PlatformInfo"].d["Generic"].d) =>
        LET v == yaml.d["PlatformInfo"].d["Generic"].d["ROM"]
        IN  IsBytes(v) \/ IsList(v) \/ (IsStr(v) /\ FromHexOK(RemoveSpaces(v.c)))

RomPath == <<"PlatformInfo", "Generic", "ROM">>
\* the changeset spells the ROM bytes ghost.rom in one of the accepted ways
RomSpelled == ghost.family = "rom" /\ ghost.form \in RomForms

Unstamped(plist) == Drop(plist.d, "#Generated")
\* operation n appends to an array that no set operation of the list writes
AppendOnly(n) ==
    /\ operations[n].op = "append"
    /\ \A m \in 1..Len(operations) :
          operations[m].op = "set" => operations[m].path # operations[n].path
\* how many entries of the array have the key value of the entry appended
Copies(plist, op) ==
    Cardinality({m \in 1..Len(ensure_array(plist, op.path)) :
                    EntryGet(ensure_array(plist, op.path)[m], op.key) = EntryGet(op.entry, op.key)})

\* C5: applying the same changeset again to the same template gives the same
\* config.plist, the timestamp aside, for everything set and merge operations
\* build, and arrays built by append operations hold no entry a second time.
C5_ReapplyIsIdempotent ==
    (Written /\ previous # NoneV) =>
        /\ Unstamped(config) = Unstamped(previous)
        /\ \A n \in 1..Len(operations) : AppendOnly(n) => Copies(config, operations[n]) <= 1

\* a driver the template lacks was appended by the first apply and is there
\* once after the second, which ran at a later time
C5_Witness ==
    /\ Written /\ run = 2 /\ previous # NoneV
    /\ config.d["#Generated"] # previous.d["#Generated"]
    /\ \E n \in 1..Len(operations) :
          /\ AppendOnly(n) /\ operations[n].path = DriversPath
          /\ Copies(template, operations[n]) = 0
          /\ Copies(config, operations[n]) = 1

\* the document without what a round trip is expected to add: the timestamp
\* and the identity mirror under the Apple GUID of NVRAM.Add
WithoutExpected(plist) ==
    LET d == Drop(plist.d, "#Generated") IN
    IF HasPath(plist, <<"NVRAM", "Add", apple_guid>>)
    THEN delete_op(DictV(d), <<"NVRAM", "Add", apple_guid>>)
    ELSE DictV(d)
\* the changeset applied is the one read-config made of the template
RoundTrip == ghost.family = "roundtrip"

\* C6 as stated: read-config of the baseline plist, applied back onto the
\* baseline, reproduces the baseline document except for the NVRAM identity
\* mirror and the #Generated timestamp.
C6_RoundTripReproduces ==
    (Written /\ RoundTrip) => WithoutExpected(config) = template

\* operation n of the translated list is an append that has, somewhere before
\* it, a remove on its path with its key field and its entry's key value
RemoveBefore(n) ==
    \E m \in 1..(n - 1) :
        /\ operations[m].op = "remove"
        /\ operations[m].path = operations[n].path
        /\ operations[m].key = OpKey(operations[n])
        /\ operations[m].value = EntryGet(operations[n].entry, operations[m].key)
\* apply-changeset holds the list changeset_to_operations returned
Translated == ghost.family # "patcher" /\ pc \in {"serialize", "apply", "patch", "post", "validate", "done"}

\* C7 as stated: in the list changeset_to_operations produces, every append
\* (ACPI.Add, Misc.Tools, UEFI.Drivers) is preceded by a remove on the same
\* path with the same key field and the appended entry's key value.
C7_AppendAfterRemove ==
    Translated =>
        \A n \in 1..Len(operations) : operations[n].op = "append" => RemoveBefore(n)

\* the recommended sections the changeset lacks
MissingSections ==
    {required_sections[j] : j \in {k \in 1..Len(required_sections) : required_sections[k] \notin DOMAIN yaml.d}}
\* ends of an apply run that come from the changeset, not from its surroundings
ChangesetFailures == {"yaml", "structure", "translate", "serialize", "patcher", "postprocess"}

\* C8: for a changeset lacking recommended sections, validate_changeset_structure
\* returns, with each missing section among the warnings and no error about
\* it, and an apply of such a changeset is not ended by validation or by
\* anything else the changeset causes.
C8_MissingSectionsOnlyWarn ==
    /\ pc = "lib_done" =>
          /\ \A s \in MissingSections : <<"Missing recommended section", s>> \in issues.warnings
          /\ \A e \in issues.errors : e[2] \notin MissingSections /\ e[1] # "Missing recommended section"
    /\ (pc = "done" /\ ghost.family = "sections" /\ MissingSections # {}) =>
          /\ failure \notin ChangesetFailures
          /\ (files = AllFiles /\ "failed" \notin trace) => exitCode = "0"

\* a changeset with one of the three recommended sections was validated: two
\* warnings, no error
C8_Witness ==
    /\ pc = "lib_done" /\ ghost.family = "sections"
    /\ Cardinality(MissingSections) = 2
    /\ issues.errors = {}
    /\ issues.warnings = {<<"Missing recommended section", s>> : s \in MissingSections}

ApplePath == <<"NVRAM", "Add", apple_guid>>
GenericPath == <<"PlatformInfo", "Generic">>
\* PlatformInfoGenericCopyToNvramForAppleId of the changeset, True by default
CopyToNvram == Truthy(GetDef(yaml.d, "PlatformInfoGenericCopyToNvramForAppleId", BoolV(TRUE)))
\* the identity fields PlatformInfo.Generic of the changeset has
MirroredFields == {nvram_fields[n] : n \in 1..Len(nvram_fields)} \cap DOMAIN AtPath(yaml, GenericPath).d

\* C9: with PlatformInfo.Generic in the changeset and the copy flag absent or
\* true, NVRAM.Add[4D1EDE05-38C7-4A6A-9CC6-4BCCA8B38C14] of the output has each
\* of SystemProductName, SystemSerialNumber, MLB, SystemUUID, ROM the
\* changeset's PlatformInfo.Generic has, equal to the output's
\* PlatformInfo.Generic value; with the flag false the mirror step returns the
\* changeset as it was loaded.
C9_NvramMirror ==
    /\ (Written /\ IsDict(yaml) /\ HasGeneric(yaml) /\ CopyToNvram) =>
          \A f \in MirroredFields :
              /\ HasPath(config, ApplePath \o <<f>>)
              /\ AtPath(config, ApplePath \o <<f>>) = AtPath(config, GenericPath \o <<f>>)
    /\ (pc = "acpi" /\ ~CopyToNvram) => changeset_data = yaml

\* a ROM spelled as a hex string and the other four fields, flag absent, came
\* out mirrored, the ROM as bytes
C9_Witness ==
    /\ Written /\ RomSpelled /\ ghost.form = "hex"
    /\ "PlatformInfoGenericCopyToNvramForAppleId" \notin DOMAIN yaml.d
    /\ Cardinality(MirroredFields) = 5
    /\ ~HasPath(yaml, ApplePath)
    /\ AtPath(config, ApplePath \o <<"ROM">>) = BytesV(ghost.rom)
    /\ AtPath(config, ApplePath \o <<"MLB">>) = AtPath(yaml, GenericPath \o <<"MLB">>)

\* the apply run is over
Exited == pc = "done"
Stages == {"loaded", "patched", "postprocessed"}
\* a failure main() handles, told from the state it leaves
HandledFailure ==
    \/ "changeset" \notin files \/ "template" \notin files
    \/ yaml = InvalidYaml
    \/ failure \in {"serialize", "patcher", "validation"}
    \/ "failed" \in trace

\* C10 as stated: exit code 0 only when the changeset was loaded, the patcher
\* applied the operations, post-processing ran and validation did not fail;
\* exit code 1 on every handled failure.
C10_AsStated ==
    Exited =>
        /\ exitCode = "0" => (Stages \subseteq trace /\ "failed" \notin trace)
        /\ HandledFailure => exitCode = "1"

\* C10 amended: exit code 0 only when the changeset was loaded and either the
\* run was a --dry-run (patcher and post-processing not run) or the
\* patcher applied the operations, post-processing ran and validation did not
\* fail; every failure (changeset or template missing, YAML load error,
\* serialization error, patcher nonzero exit, validation failure) gives 1.
C10_ExitCodes ==
    Exited =>
        /\ exitCode \in {"0", "1"}
        /\ exitCode = "0" =>
              /\ "loaded" \in trace
              /\ IF args.dry_run
                 THEN "patched" \notin trace /\ "postprocessed" \notin trace
                 ELSE Stages \subseteq trace /\ "failed" \notin trace
        /\ HandledFailure => exitCode = "1"
        /\ exitCode = "1" <=> failure # "none"

\* a dry run ended with code 0 without the patcher having run
C10_Witness ==
    /\ Exited /\ exitCode = "0" /\ args.dry_run
    /\ "loaded" \in trace /\ "patched" \notin trace
    /\ Len(operations) > 0

\* ---- C14 --------------------------------------------------------------------
\* an apply-changeset invocation that was given --dry-run and has parsed it
DryRunning == ghost.family # "patcher" /\ args.dry_run /\ pc \notin {"idle", "lib_done"}

\* C14: with --dry-run apply-changeset applies nothing: once the flag is
\* parsed, no step of the invocation changes config.plist, runs the patcher,
\* or creates or fills a directory of the EFI build tree (EFI/OC/ACPI)
C14_DryRunAppliesNothing ==
    [][DryRunning => (UNCHANGED <<config, acpi_dir>> /\ "patched" \notin trace')]_vars

\* ---- C19 --------------------------------------------------------------------
\* the step of patch-plist.py now taken applies a set operation whose value is
\* the empty list
SetsEmptyList ==
    /\ pc \in {"p_script", "p_main"} /\ pc' = pc /\ i' = i + 1
    /\ operations[i].op = "set"
    /\ operations[i].value = ListV(<<>>)

\* C19: a set operation with an empty list stores empty bytes only under a
\* data field (Find, Mask, Replace, ReplaceMask, Cpuid1Data, Cpuid1Mask) and
\* an empty array under any other field
C19_EmptyListByField ==
    [][SetsEmptyList =>
          AtPath(data', operations[i].path) =
              IF Last(operations[i].path) \in DataFields THEN BytesV(<<>>) ELSE ListV(<<>>)]_vars

\* ---- C17, C18 ---------------------------------------------------------------
\* a run of patch-plist.py by hand that has ended
PatcherEnded == ghost.family = "patcher" /\ pc = "p_done"
\* the operation types one of the two blocks of patch-plist.py knows
RecognisedOps == {"set", "append", "merge", "delete", "list", "clear", "remove"}
HasUnrecognisedOp == \E n \in 1..Len(operations) : operations[n].op \notin RecognisedOps

\* C18: when the operation list holds an operation of a type the patcher does
\* not recognise, the patcher ends with a nonzero exit code and the plist on
\* disk is what it was before the run
C18_UnknownOpLeavesPlist ==
    (PatcherEnded /\ HasUnrecognisedOp) => (exitCode = "1" /\ config = previous)

\* the operation types of main(), the ones the translator emits
MainOps == {"set", "append", "merge", "clear", "remove"}
\* one left-to-right application of the list to the plist as it was before the run
Single == patch_main(previous, operations)
SingleApplies ==
    /\ \A n \in 1..Len(operations) : operations[n].op \in MainOps
    /\ Single.ok
    /\ ~plist_dump_raises(Single.data)

\* C17: patch-plist.py run as a script applies each operation once, in list
\* order: the plist it leaves on disk is the result of one left-to-right
\* application of the list to the plist that was on disk before
C17_AppliedOnce ==
    (PatcherEnded /\ SingleApplies) => (exitCode = "0" /\ config = Single.data)

\* ---- C20 --------------------------------------------------------------------
\* the PascalCase spelling of a section name
PascalName(k) ==
    CASE k = "kexts" -> "Kexts"
      [] k = "booter_quirks" -> "BooterQuirks"
      [] k = "kernel_quirks" -> "KernelQuirks"
      [] k = "acpi_add" -> "AcpiAdd"
      [] k = "uefi_drivers" -> "UefiDrivers"
      [] k = "tools" -> "MiscTools"
      [] k = "boot_args" -> "BootArgs"
      [] k = "kernel_patches" -> "KernelPatches"
      [] k = "csr_active_config" -> "CsrActiveConfig"
      [] OTHER -> k
\* the changeset with every section under its PascalCase name
Respelled(cs) ==
    DictV([K \in {PascalName(k) : k \in DOMAIN cs.d} |->
              cs.d[CHOOSE k \in DOMAIN cs.d : PascalName(k) = K]])

\* C20: the two spellings of a section are interchangeable: the operations
\* the translator produced for the changeset are the operations it produces
\* for the same changeset with its sections spelled in PascalCase
C20_SpellingsInterchangeable ==
    (ghost.family # "patcher" /\ pc = "serialize") =>
        /\ ~changeset_to_operations_raises(Respelled(changeset_data))
        /\ operations = changeset_to_operations(Respelled(changeset_data))

\* ---- C11 --------------------------------------------------------------------
\* the step fetch-assets.py, full-usb.py or deploy-usb.py now takes fails
StepFails ==
    ghost.family \in {"fetch-assets", "full-usb", "deploy-usb"} /\ failed' # failed
\* the invocation ends with this step, with the given code
EndsWith(code) == pc' \in {"f_done", "u_done", "d_done"} /\ exitCode' = code

Retried == {"f_clone_ssh", "f_checkout", "f_drivers_ssh", "f_amd_ssh"}
\* failures that are reported and passed over
PassedOver == {"f_tags", "f_kexts", "f_drivers_copy", "f_amd_copy", "f_local",
               "u_assets", "u_deploy", "u_eject", "d_copy"}
\* deploy-usb.py finds no Install volume or no EFI partition
NothingToDeployTo == {"d_volumes", "d_partition"}

SaveOverwrites == ghost.family = "save" /\ args.backup /\ yaml' # yaml

\* C12: when save_changeset with backup enabled overwrites an existing
\* changeset file, the .yaml.backup file holds afterwards the content the
\* changeset file had just before the save
C12_BackupHoldsPrevious == [][SaveOverwrites => backup' = yaml]_vars

\* ---- C13 --------------------------------------------------------------------
\* the build now fetches the assets (fetch-assets.py runs and succeeds)
FetchesNow == ghost.family = "full-deploy" /\ "fetched" \in trace' /\ "fetched" \notin trace
\* the requirement hash of the changeset as it is now
CurrentHash == hash_requirements(canonical_asset_requirements(yaml))

\* C13 as stated: a build fetches the assets only when the stored requirement
\* hash differs from the one of the current changeset, and after the fetch
\* the stored hash is the current one
C13_AsStated ==
    [][FetchesNow => (cache.hash # CurrentHash /\ cache'.hash = CurrentHash)]_vars

\* the builder decides about the assets and does not end the build there
AssetsDecided == ghost.family = "full-deploy" /\ pc = "b_assets" /\ pc' = "b_apply"

\* C13, amended: a build fetches the assets exactly when it is forced, or the
\* stored requirement hash is absent or differs from the hash of the current
\* changeset, or EFI/OC/Kexts holds no kext; after the fetch of a build that
\* is not forced the stored hash is the current one unless the hash file
\* could not be written; a forced build leaves the stored hash as it was
C13_FetchWhenStaleForcedOrEmpty ==
    [][AssetsDecided =>
          /\ FetchesNow <=> (args.force \/ cache.hash # CurrentHash \/ cache.kexts = {})
          /\ (FetchesNow /\ ~args.force /\ "hash" \notin failed') => cache'.hash = CurrentHash
          /\ (FetchesNow /\ args.force) => cache'.hash = cache.hash
          /\ ~FetchesNow => cache' = cache]_vars

\* a second build of an unchanged changeset that reused the assets of the first
C13_Witness ==
    /\ ghost.family = "full-deploy"
    /\ run = 2
    /\ pc = "b_apply"
    /\ "fetched" \notin trace
    /\ cache.hash = CurrentHash
    /\ cache.kexts # {}

\* ---- C15 --------------------------------------------------------------------
\* C15: full-deploy run with --iso-only or --build-only skips step 1: in
\* that run the changeset is not applied, no assets are fetched and the
\* configuration is not validated
C15_Step1Skipped ==
    (ghost.family = "full-deploy" /\ (args.iso_only \/ args.build_only)) =>
        trace \cap {"applied", "fetched", "validated"} = {}

\* ---- C16 --------------------------------------------------------------------
\* C16: full-deploy run with --build-only builds the IMG/ISO and deploys
\* nothing, neither to the Proxmox host nor to a local EFI volume
C16_BuildOnlyNeverDeploys ==
    (ghost.family = "full-deploy" /\ args.build_only) =>
        /\ trace \cap {"deployed", "deployed locally"} = {}
        /\ (pc = "w_done" /\ exitCode = "0") => "packaged" \in trace

\* ---- C21 --------------------------------------------------------------------
\* the changeset file defines boot arguments at top level and in NVRAM Add
DefinesBootArgsTwice ==
    /\ ghost.family # "patcher" /\ IsDict(yaml)
    /\ "BootArgs" \in DOMAIN yaml.d \/ "boot_args" \in DOMAIN yaml.d
    /\ "NVRAM" \in DOMAIN yaml.d
    /\ \E add \in {"Add", "add"} :
          /\ add \in DOMAIN yaml.d["NVRAM"].d
          /\ \E guid \in DOMAIN yaml.d["NVRAM"].d[add].d :
                "boot-args" \in DOMAIN yaml.d["NVRAM"].d[add].d[guid].d
\* the set operations on boot-args in the list the translator returned
BootArgsSets ==
    {n \in 1..Len(operations) :
        /\ operations[n].op = "set"
        /\ operations[n].path = <<"NVRAM", "Add", BootGuid, "boot-args">>}

\* C21: a changeset that defines boot arguments both at top level and as
\* boot-args in NVRAM Add is rejected, apply-changeset exits with code 1
\* having written nothing; the operation list of an accepted changeset holds
\* at most one set operation on NVRAM.Add.<GUID>.boot-args
C21_BootArgsDefinedOnce ==
    /\ (DefinesBootArgsTwice /\ pc \in {"mirror", "acpi", "amd", "translate", "serialize",
                                        "apply", "patch", "post", "validate", "done"}) =>
          /\ pc = "done" /\ exitCode = "1"
          /\ config = NoneV /\ acpi_dir = {} /\ "patched" \notin trace
    /\ (ghost.family # "patcher" /\ pc = "serialize") => Cardinality(BootArgsSets) <= 1

\* a changeset with an empty top-level boot_args and boot-args in NVRAM was
\* turned away by the validation
C21_Witness ==
    /\ DefinesBootArgsTwice /\ ~Truthy(top_level_boot_args(yaml))
    /\ pc = "done" /\ exitCode = "1" /\ failure = "structure"

\* a changeset with boot-args under two GUIDs was translated
C21_WitnessOnce ==
    /\ ghost.family = "misc" /\ pc = "serialize"
    /\ Cardinality(BootArgGuids(changeset_data)) = 2
    /\ Cardinality(BootArgsSets) = 1

\* ---- C22 --------------------------------------------------------------------
\* the changeset enables AmdVanillaPatches under either spelling
AmdEnabled ==
    /\ ghost.family = "amd" /\ IsDict(yaml)
    /\ Truthy(GetDef(yaml.d, "AmdVanillaPatches", GetDef(yaml.d, "amd_vanilla_patches", BoolV(FALSE))))
\* the changeset's own kernel patches, and the AMD Vanilla patches adjusted
\* for --amd-cores, 16 when the option is not given
OwnPatches == GetDef(yaml.d, "KernelPatches", GetDef(yaml.d, "kernel_patches", ListV(<<>>))).s
AdjustedAmdPatches ==
    modify_amd_core_count_patches(load_amd_vanilla_patches(patches_cache),
                                  IF args.amd_cores = NoneV THEN 16 ELSE IntOf(args.amd_cores)).returns.s
AppliedWithSuccess == Written /\ pc = "done" /\ exitCode = "0"

\* C22: when a changeset enables AmdVanillaPatches and apply-changeset exits
\* with code 0, Kernel.Patch of the output plist is the changeset's own kernel
\* patches followed by all AMD Vanilla patches adjusted for the core count of
\* --amd-cores (16 by default); apply never reports success with the AMD
\* patches missing
C22_AmdPatchesInjected ==
    (AmdEnabled /\ AppliedWithSuccess) =>
        /\ Truthy(load_amd_vanilla_patches(patches_cache))
        /\ AtPath(config, <<"Kernel", "Patch">>) = ListV(OwnPatches \o AdjustedAmdPatches)

\* the part of C22 that holds: with the patches loaded and a core count of
\* 1..64 given, the output has the own patches and then the adjusted ones
C22_InjectedWhenLoaded ==
    (AmdEnabled /\ AppliedWithSuccess /\ Truthy(load_amd_vanilla_patches(patches_cache))
       /\ args.amd_cores \in {NoneV, IntV(8)}) =>
        AtPath(config, <<"Kernel", "Patch">>) = ListV(OwnPatches \o AdjustedAmdPatches)
C22_Injected ==
    /\ AmdEnabled /\ AppliedWithSuccess /\ Len(OwnPatches) = 1 /\ args.amd_cores = IntV(8)
    /\ Len(AtPath(config, <<"Kernel", "Patch">>).s) = 3

\* ---- C23 --------------------------------------------------------------------
\* amd-vanilla.py test has called modify_amd_core_count_patches
Modified == ghost.family = "amd-test" /\ pc = "t_done" /\ exitCode = "0"
GivenPatches == load_amd_vanilla_patches(patches_cache).s
ReturnedPatches == data.modified_patches.s
\* the two patches have the same keys and agree on all of them but Replace
SameButReplace(p, q) ==
    /\ DOMAIN p.d = DOMAIN q.d
    /\ \A field \in DOMAIN p.d \ {"Replace"} : p.d[field] = q.d[field]
\* the byte patterns of the core count instruction, and the bytes with every
\* occurrence of the first pattern found in them replaced by BA <cores> 00 00 00
CorePatterns == <<<<186, 0, 0, 0, 0>>, <<184, 0, 0, 0, 0>>, <<186, 0, 0, 0, 144>>>>
WithCoreCount(b, cores) ==
    LET found == {k \in 1..Len(CorePatterns) : Occurs(CorePatterns[k], b)}
    IN  IF found = {} THEN b
        ELSE str_replace(b, CorePatterns[CHOOSE k \in found : \A m \in found : k <= m],
                         <<186, cores, 0, 0, 0>>)
\* the length of a Replace value, and the bytes it stands for
LengthOf(v) == IF IsBytes(v) THEN Len(v.b) ELSE Len(v.c)
BytesOf(v) == IF IsBytes(v) THEN v.b ELSE a2b_base64(v.c, 0, 0, 0, <<>>).b
MentionsCores(p) == \E k \in 1..Len(GetDef(p.d, "Comment", Empty).c) :
                        p.d["Comment"].c[k] = "cpuid_cores_per_package"
MentionsCoresAnyCase(p) ==
    \E k \in 1..Len(GetDef(p.d, "Comment", Empty).c) :
        p.d["Comment"].c[k] \in {"cpuid_cores_per_package", "CPUID_CORES_PER_PACKAGE"}

Converted == ghost.family = "plist-to-changeset" /\ pc = "c_done" /\ exitCode = "0"
EnabledPatches == extract_kernel_patches(config).s
CommentsOf(patches) == [k \in 1..Len(patches) |-> GetDef(patches[k].d, "Comment", Empty)]

\* C24: the conversion never drops the enabled kernel patches of the source
\* plist: when AMD Vanilla patches are detected among them the changeset has
\* the AmdVanillaPatches flag enabled, otherwise it holds the patches, in
\* their order, under KernelPatches
C24_PatchesKept ==
    (Converted /\ EnabledPatches # <<>>) =>
        IF detect_amd_patches(ListV(EnabledPatches))
        THEN Truthy(GetDef(yaml.d, "AmdVanillaPatches", BoolV(FALSE)))
        ELSE /\ "KernelPatches" \in DOMAIN yaml.d
             /\ CommentsOf(yaml.d["KernelPatches"].s) = CommentsOf(EnabledPatches)

\* the part of C24 that holds: patches without a mention of AMD are kept
C24_OtherPatchesKept ==
    (Converted /\ EnabledPatches # <<>> /\ ~detect_amd_patches(ListV(EnabledPatches))) =>
        /\ "KernelPatches" \in DOMAIN yaml.d
        /\ CommentsOf(yaml.d["KernelPatches"].s) = CommentsOf(EnabledPatches)
C24_Kept ==
    /\ Converted /\ Len(EnabledPatches) = 2 /\ "KernelPatches" \in DOMAIN yaml.d
    /\ yaml.d["KernelPatches"].s[1].d["Replace"] = StrV(<<"u", "g", "A", "A", "A", "A", "A", "=">>)

\* ---- C25 --------------------------------------------------------------------
\* build_iso_artifact or build_img_artifact is at its packaging step
Packaging == ghost.family \in {"full-deploy", "build-artifact"} /\ pc = "b_package"
\* build_complete_efi_structure returned True
StructureBuilt == failed \cap {"fetch", "apply"} = {} /\ failure \notin {"tools", "kexts"}
ValidationPassed == "validated" \in trace /\ "validation" \notin failed

Concurrent == ghost.family = "concurrent"
BothReturned(code) == \A p \in Procs : procs[p].pc = "done" /\ procs[p].exitCode = code
\* config.plist after invocation p has run with nobody else at work
Alone(p) ==
    post_process_config(patcher_process(template, procs[p].operations).plist, clock)

\* the steps of invocation p that empty or fill config.plist with what p holds
Overwrites(p) ==
    \/ ConcurrentCopy(p) \/ ConcurrentCopyWrite(p) \/ ScriptWrite(p) \/ MainWrite(p)
    \/ PostWrite(p) \/ FormatOpen(p) \/ FormatWrite(p)
AboutToOverwrite(p) ==
    procs[p].pc \in {"copy_open", "copy_write", "script_write", "main_write", "post_write",
                     "format_open", "format_write"}

\* C26: nothing serialises the invocations' accesses to config.plist: an
\* invocation that is about to copy the template over config.plist, or to
\* empty or write the file while patching or post-processing, can always do
\* so, wherever the other invocation stands between its own copy and its
\* last write.  The mixed outcome this allows is C26_Witness.
C26_NoMutualExclusion ==
    Concurrent => \A p \in Procs : AboutToOverwrite(p) => ENABLED Overwrites(p)

\* config.plist after invocation q has patched what invocation p had patched
OneAfterTheOther(p, q) ==
    post_process_config(
        patcher_process(patcher_process(template, procs[p].operations).plist,
                        procs[q].operations).plist, clock)

\* both invocations, given different changesets, return 0 and config.plist
\* is the result of neither changeset applied alone: it carries the changes
\* of both, the second patcher having loaded what the first had written
C26_Witness ==
    /\ Concurrent
    /\ procs[1].changeset # procs[2].changeset
    /\ BothReturned("0")
    /\ IsDict(config)
    /\ config # Alone(1)
    /\ config # Alone(2)
    /\ config = OneAfterTheOther(1, 2)

====
